---- MODULE Spec2Model ----
(***************************************************************************)
(* DevLog AI backend: the Brain Agent pipeline                             *)
(*   parse_intent -> retrieve_logs -> (generate_answer)                    *)
(* of src/backend/services/agent/brain_agent.py together with the store    *)
(* reads of src/backend/services/database.py and the JSON extraction of    *)
(* src/backend/llm/base.py; the provider selection get_llm of              *)
(* src/backend/llm/factory.py; and the endpoints ask_brain and             *)
(* ask_brain_stream of src/backend/routers/agent.py.                       *)
(*                                                                         *)
(* Specifications.                                                         *)
(*   Spec          the pipeline on logs written at noon                    *)
(*   SpecBoundary  the pipeline on logs written at the edges of a day      *)
(*   SpecCalls     get_logs_by_tags, get_llm and _extract_json, each       *)
(*                 called on its own                                       *)
(*   SpecAsk       the two endpoints around the pipeline                   *)
(*                                                                         *)
(* Units.  Python floats are modelled by exact integers:                   *)
(*   - a similarity is an integer number of thousandths (0.3 is 300);      *)
(*   - a retrieval_score is an integer number of ten-thousandths           *)
(*     (1.0 is 10000, 0.3 is 3000, sim * 0.7 is 7 * thousandths(sim)).     *)
(* The stored vectors are chosen with integer norms, so that every         *)
(* similarity of the model is an exact number of thousandths.              *)
(* Timestamps are epoch milliseconds, as in the store.                     *)
(***************************************************************************)
EXTENDS Integers, Sequences, FiniteSets, TLC

VARIABLES
    table,        \* rows of the logs table joined with log_embeddings, in rowid order
    query,        \* state["query"]
    llmOut,       \* what llm.generate does for the intent prompt: a text, or a failure
    pc,           \* position of the pipeline
    intent,       \* state["intent"]
    results,      \* local list `results` of _retrieve_logs
    seen_ids,     \* local set `seen_ids` of _retrieve_logs
    retrieved,    \* state["retrieved_logs"]
    raised,       \* where an exception left _retrieve_logs, "none" if nowhere
    status,       \* history: what each channel did (skipped / ok / failed)
    afterDate,    \* history: `results` after the date channel
    afterTag,     \* history: `results` after the tag channel
    afterSem,     \* history: `results` after the semantic channel
    beforeSort,   \* history: `results` when results.sort is called
    call,         \* the entry point called: its name, arguments and environment
    ret,          \* what that call returned or raised
    llm,          \* the provider get_llm gave the request, "none" before
    answer,       \* state["answer"]
    events,       \* the events the streaming response has sent
    inv,          \* two concurrent invocations: the state and locals of each
    model,        \* the global _model of services/embedding.py
    loads,        \* history: how many times SentenceTransformer was constructed
    callers,      \* the in-flight queries that use the embedding model
    conns         \* the store connections that are open

\* the variables of the pipeline and the variables of the single calls
pipeVars == <<query, llmOut, pc, intent, results, seen_ids, retrieved,
              raised, status, afterDate, afterTag, afterSem, beforeSort>>
askVars == <<llm, answer, events>>
extVars == <<inv, model, loads, callers, conns>>
auxVars == <<call, ret, llm, answer, events, inv, model, loads, callers, conns>>

vars == <<table, query, llmOut, pc, intent, results, seen_ids, retrieved,
          raised, status, afterDate, afterTag, afterSem, beforeSort, call, ret,
          llm, answer, events, inv, model, loads, callers, conns>>

(***************************************************************************)
(* Bounds of the model                                                     *)
(***************************************************************************)
\* Number of freely chosen rows of a small logs table.
MaxLogs == 3
\* A large table holds a block of MaxResults + BulkOver identical rows
\* after at most MaxBulkFree freely chosen rows.
BulkOver == 1
MaxBulkFree == 1

(***************************************************************************)
(* Program constants                                                       *)
(***************************************************************************)
\* results[:20] and get_all_logs(limit=20)
MaxResults == 20
\* retrieval_score of a date match, 1.0
DateScore == 10000
\* retrieval_score added by a tag match, 0.3
TagScore == 3000
\* retrieval_score of a fallback entry, 0.1
FallbackScore == 1000
\* `if sim > 0.3`, in thousandths
SimThreshold == 300
\* `sim * 0.7`: ten-thousandths of score per thousandth of similarity
SemWeight == 7
\* timedelta(days=1), in the milliseconds of `timestamp() * 1000`
DayMs == 86400000

(***************************************************************************)
(* Sequence helpers                                                        *)
(***************************************************************************)
Range(s) == {s[i] : i \in DOMAIN s}

Min(a, b) == IF a <= b THEN a ELSE b

\* s[:n] of Python, n >= 0
Take(s, n) == SubSeq(s, 1, Min(n, Len(s)))

\* the sequence of n copies of x
Repeat(x, n) == [i \in 1..n |-> x]

\* the ids of a list of rows or result entries, as a set
Ids(s) == {s[i].id : i \in DOMAIN s}

\* the first position of s that holds id, 0 if none
IndexOfId(s, id) ==
    IF \E i \in DOMAIN s : s[i].id = id
    THEN CHOOSE i \in DOMAIN s :
            /\ s[i].id = id
            /\ \A j \in 1..(i - 1) : s[j].id # id
    ELSE 0

(***************************************************************************)
(* The store: src/backend/services/database.py                             *)
(* A row is [id, timestamp, tags, has_embedding, embedding]: a row of      *)
(* `logs` with its row of `log_embeddings` when it has one.  content,      *)
(* source and summary are carried through unchanged by every read and      *)
(* are left out.                                                           *)
(***************************************************************************)
\* str.lower() on the names of the model
Lower(name) ==
    CASE name = "CORS" -> "cors"
      [] name = "React" -> "react"
      [] name = "REACT" -> "react"
      [] name = "React Native" -> "react native"
      [] name = "DeepSeek" -> "deepseek"
      [] name = "Gemini" -> "gemini"
      [] name = "OPENAI" -> "openai"
      [] name = "OpenAI" -> "openai"
      [] OTHER -> name

\* ORDER BY timestamp DESC: rows of equal timestamp stay in rowid order
RECURSIVE InsertByTimestampDesc(_, _)
InsertByTimestampDesc(sorted, row) ==
    IF sorted = <<>> THEN <<row>>
    ELSE IF Head(sorted).timestamp >= row.timestamp
         THEN <<Head(sorted)>> \o InsertByTimestampDesc(Tail(sorted), row)
         ELSE <<row>> \o sorted

RECURSIVE OrderByTimestampDesc(_)
OrderByTimestampDesc(rows) ==
    IF rows = <<>> THEN <<>>
    ELSE InsertByTimestampDesc(
            OrderByTimestampDesc(SubSeq(rows, 1, Len(rows) - 1)),
            rows[Len(rows)])

\* get_all_logs with the ORDER BY left out
get_all_logs_unordered(tbl, limit) == Take(tbl, limit)

\* get_all_logs(limit): ORDER BY timestamp DESC LIMIT ?
get_all_logs(tbl, limit) == Take(OrderByTimestampDesc(tbl), limit)

\* get_logs_by_date_range: WHERE timestamp >= ? AND timestamp <= ?
InDateRange(row, start_ts, end_ts) ==
    row.timestamp >= start_ts /\ row.timestamp <= end_ts

get_logs_by_date_range(tbl, start_ts, end_ts) ==
    LET Keep(row) == InDateRange(row, start_ts, end_ts)
    IN  SelectSeq(OrderByTimestampDesc(tbl), Keep)

\* one lower-case name is a substring of another
IsSubstring(part, whole) ==
    \/ part = whole
    \/ part = ""
    \/ part = "react" /\ whole = "react native"

\* TagMatches with `in` on strings: a requested name found inside a tag name
TagMatchesSubstring(row, tag_names) ==
    \E i \in DOMAIN row.tags, j \in DOMAIN tag_names :
        IsSubstring(Lower(tag_names[j]), Lower(row.tags[i]))

\* get_logs_by_tags: any(t in tag_names_lower for t in tag_names_in_log)
TagMatches(row, tag_names) ==
    LET tag_names_lower == {Lower(tag_names[i]) : i \in DOMAIN tag_names}
        tag_names_in_log == {Lower(row.tags[i]) : i \in DOMAIN row.tags}
    IN  \E t \in tag_names_in_log : t \in tag_names_lower

get_logs_by_tags(tbl, tag_names) ==
    LET Keep(row) == TagMatches(row, tag_names)
    IN  SelectSeq(OrderByTimestampDesc(tbl), Keep)

\* get_log_embeddings: log_embeddings JOIN logs, ORDER BY l.timestamp DESC
HasEmbedding(row) == row.has_embedding

get_log_embeddings(tbl) == SelectSeq(OrderByTimestampDesc(tbl), HasEmbedding)

(***************************************************************************)
(* cosine_similarity: src/backend/services/agent/brain_agent.py            *)
(***************************************************************************)
RECURSIVE Dot(_, _)
Dot(v1, v2) ==
    IF v1 = <<>> THEN 0
    ELSE Head(v1) * Head(v2) + Dot(Tail(v1), Tail(v2))

\* the integer square root
Isqrt(n) == CHOOSE r \in 0..n : r * r <= n /\ (r + 1) * (r + 1) > n

\* np.linalg.norm
Norm(v) == Isqrt(Dot(v, v))

\* np.dot raises ValueError on vectors of different lengths
CosineRaises(vec1, vec2) == Len(vec1) # Len(vec2)

\* cosine_similarity without `if norm1 == 0 or norm2 == 0`: numpy divides
\* by zero and gives nan, here a value no similarity has
cosine_similarity_unguarded(vec1, vec2) ==
    IF Norm(vec1) = 0 \/ Norm(vec2) = 0 THEN 0 - 999999
    ELSE (Dot(vec1, vec2) * 1000) \div (Norm(vec1) * Norm(vec2))

\* the similarity in thousandths
cosine_similarity(vec1, vec2) ==
    LET dot == Dot(vec1, vec2)
        norm1 == Norm(vec1)
        norm2 == Norm(vec2)
    IN  IF norm1 = 0 \/ norm2 = 0 THEN 0
        ELSE (dot * 1000) \div (norm1 * norm2)

(***************************************************************************)
(* The embedding model behind compute_embedding: a fixed map from the      *)
(* texts of the model to vectors.                                          *)
(***************************************************************************)
EmbedText(text) ==
    CASE text = "core" -> <<1, 0, 0, 0>>
      [] OTHER -> <<0, 1, 0, 0>>

(***************************************************************************)
(* BaseLLM._extract_json: src/backend/llm/base.py                          *)
(* A text is a sequence of tokens: "FENCE" is a code fence, "{" and "}"    *)
(* are braces, "null" and "[" "]" JSON literals, "w" any word that is no   *)
(* JSON, and a payload name ("p1", ...) the members of an intent object.   *)
(***************************************************************************)
Payloads == {"p1", "p2", "p3", "p4", "p5", "p6", "p7", "p8", "p9", "p10", "p11", "p12"}

\* date strings of the model and the day strptime(.., "%Y-%m-%d") gives; -1: ValueError
DayOf(s) ==
    CASE s = "1970-01-01" -> 0
      [] s = "1970-01-02" -> 1
      [] OTHER -> -1

NoDateRange == <<>>
Day0Range == <<[start |-> "1970-01-01", end |-> "1970-01-01"]>>
BadDateRange == <<[start |-> "last week", end |-> "today"]>>
Day01Range == <<[start |-> "1970-01-01", end |-> "1970-01-02"]>>
Day1Range == <<[start |-> "1970-01-02", end |-> "1970-01-02"]>>
Day10Range == <<[start |-> "1970-01-02", end |-> "1970-01-01"]>>

\* payloads that differ in the date range only
RangePayloads == {"r00", "r01", "r11", "r10"}

JObject(date_range, tags, semantic_query, needs_rag) ==
    [kind |-> "object", date_range |-> date_range, tags |-> tags,
     semantic_query |-> semantic_query, needs_rag |-> needs_rag]

JNull == [kind |-> "null"]
JArray == [kind |-> "array"]

\* the intent object a payload of RangePayloads denotes
RangePayloadObject(p) ==
    JObject(CASE p = "r00" -> Day0Range
              [] p = "r01" -> Day01Range
              [] p = "r11" -> Day1Range
              [] OTHER -> Day10Range,
            <<>>, "core", TRUE)

\* the intent object a payload of Payloads denotes
PayloadObject(p) ==
    LET n == CHOOSE k \in 0..11 : p = <<"p1", "p2", "p3", "p4", "p5", "p6", "p7",
                                         "p8", "p9", "p10", "p11", "p12">>[k + 1]
        dr == <<NoDateRange, Day0Range, BadDateRange>>[(n % 3) + 1]
        tg == <<(<<>>), <<"CORS", "react">>>>[((n \div 3) % 2) + 1]
        rag == (n \div 6) = 0
    IN  JObject(dr, tg, "core", rag)

\* json.loads: the value of a text, [ok |-> FALSE] for JSONDecodeError
JsonLoads(text) ==
    IF Len(text) = 3 /\ text[1] = "{" /\ text[2] \in Payloads /\ text[3] = "}"
    THEN [ok |-> TRUE, value |-> PayloadObject(text[2])]
    ELSE IF Len(text) = 3 /\ text[1] = "{" /\ text[2] \in RangePayloads /\ text[3] = "}"
    THEN [ok |-> TRUE, value |-> RangePayloadObject(text[2])]
    ELSE IF text = <<"null">> THEN [ok |-> TRUE, value |-> JNull]
    ELSE IF text = <<"[", "]">> THEN [ok |-> TRUE, value |-> JArray]
    ELSE [ok |-> FALSE]

\* text.find(tok) and text.rfind(tok), 1-based, 0 if absent
Find(text, tok) ==
    IF \E i \in DOMAIN text : text[i] = tok
    THEN CHOOSE i \in DOMAIN text : text[i] = tok /\ \A j \in 1..(i - 1) : text[j] # tok
    ELSE 0

RFind(text, tok) ==
    IF \E i \in DOMAIN text : text[i] = tok
    THEN CHOOSE i \in DOMAIN text : text[i] = tok /\ \A j \in (i + 1)..Len(text) : text[j] # tok
    ELSE 0

\* re.search of the fenced-block pattern (first fence, lazily up to the next
\* fence): the tokens between the first fence and the next one
FenceMatch(text) ==
    LET open == Find(text, "FENCE")
        rest == IF open = 0 THEN <<>> ELSE SubSeq(text, open + 1, Len(text))
        close == Find(rest, "FENCE")
    IN  IF open # 0 /\ close # 0
        THEN [found |-> TRUE, group |-> SubSeq(rest, 1, close - 1)]
        ELSE [found |-> FALSE]

extract_json(text0) ==
    LET json_match == FenceMatch(text0)
        text == IF json_match.found THEN json_match.group ELSE text0
        direct == JsonLoads(text)
        start == Find(text, "{")
        end == RFind(text, "}")
    IN  IF direct.ok THEN direct
        ELSE IF start # 0 /\ end > start - 1 /\ end # 0
             THEN JsonLoads(SubSeq(text, start, end))
             ELSE [ok |-> FALSE]

(***************************************************************************)
(* BrainAgent._parse_intent: src/backend/services/agent/brain_agent.py     *)
(***************************************************************************)
\* the intent of the except branch
DefaultIntent(q) == JObject(NoDateRange, <<>>, q, TRUE)

\* llm.generate_json(prompt): generate, then _extract_json
generate_json(out) ==
    IF out.raises THEN [ok |-> FALSE] ELSE extract_json(out.text)

parse_intent(q, out) ==
    LET result == generate_json(out)
    IN  IF result.ok THEN result.value ELSE DefaultIntent(q)

(***************************************************************************)
(* get_llm: src/backend/llm/factory.py                                     *)
(***************************************************************************)
\* Python's None, and the truth value of an optional string
None == "<None>"
Truthy(x) == x \notin {None, ""}

ProviderRaises == [raises |-> TRUE, llm |-> "none"]
Provider(name) == [raises |-> FALSE, llm |-> name]

\* the auto-detection of get_llm: DeepSeek > Gemini > OpenAI
AutoDetect(env) ==
    IF Truthy(env.DEEPSEEK_API_KEY) THEN Provider("DeepSeek")
    ELSE IF Truthy(env.GEMINI_API_KEY) THEN Provider("Gemini")
    ELSE IF Truthy(env.OPENAI_API_KEY) THEN Provider("OpenAI")
    ELSE ProviderRaises

\* get_llm that raises when the named provider has no key
get_llm_no_autodetect(provider, env) ==
    LET selected_provider == IF Truthy(provider) THEN provider ELSE env.AI_PROVIDER
        name == IF Truthy(selected_provider) THEN Lower(selected_provider) ELSE ""
    IN  IF name = "deepseek" /\ Truthy(env.DEEPSEEK_API_KEY) THEN Provider("DeepSeek")
        ELSE IF name = "gemini" /\ Truthy(env.GEMINI_API_KEY) THEN Provider("Gemini")
        ELSE IF name = "openai" /\ Truthy(env.OPENAI_API_KEY) THEN Provider("OpenAI")
        ELSE IF Truthy(selected_provider) THEN ProviderRaises
        ELSE AutoDetect(env)

\* get_llm(provider); env holds AI_PROVIDER and the three keys of settings.py
get_llm(provider, env) ==
    LET selected_provider == IF Truthy(provider) THEN provider ELSE env.AI_PROVIDER
        name == IF Truthy(selected_provider) THEN Lower(selected_provider) ELSE ""
    IN  IF name = "deepseek" /\ Truthy(env.DEEPSEEK_API_KEY) THEN Provider("DeepSeek")
        ELSE IF name = "gemini" /\ Truthy(env.GEMINI_API_KEY) THEN Provider("Gemini")
        ELSE IF name = "openai" /\ Truthy(env.OPENAI_API_KEY) THEN Provider("OpenAI")
        ELSE AutoDetect(env)

(***************************************************************************)
(* BrainAgent._retrieve_logs                                               *)
(* An entry of `results` is [id, timestamp, retrieval_score].              *)
(***************************************************************************)
Entry(log, score) ==
    [id |-> log.id, timestamp |-> log.timestamp, retrieval_score |-> score]

\* Boost with `=` in place of `+=`
BoostAssign(res, id, amount) ==
    [i \in DOMAIN res |->
        IF res[i].id = id /\ \A j \in 1..(i - 1) : res[j].id # id
        THEN [res[i] EXCEPT !.retrieval_score = amount]
        ELSE res[i]]

\* for r in results: if r["id"] == id: r["retrieval_score"] += amount; break
Boost(res, id, amount) ==
    [i \in DOMAIN res |->
        IF res[i].id = id /\ \A j \in 1..(i - 1) : res[j].id # id
        THEN [res[i] EXCEPT !.retrieval_score = @ + amount]
        ELSE res[i]]

\* DateStep entering a date match at the score of a tag match
DateStepAtTagScore(acc, log) ==
    IF log.id \notin acc.seen_ids
    THEN [results |-> Append(acc.results, Entry(log, TagScore)),
          seen_ids |-> acc.seen_ids \cup {log.id}]
    ELSE acc

\* one iteration of `for log in date_logs`
DateStep(acc, log) ==
    IF log.id \notin acc.seen_ids
    THEN [results |-> Append(acc.results, Entry(log, DateScore)),
          seen_ids |-> acc.seen_ids \cup {log.id}]
    ELSE acc

\* TagStep assigning the tag score to a log that is already present
TagStepOverwrite(acc, log) ==
    IF log.id \in acc.seen_ids
    THEN [acc EXCEPT !.results = Boost(acc.results, log.id,
                                       TagScore - acc.results[IndexOfId(acc.results, log.id)].retrieval_score)]
    ELSE [results |-> Append(acc.results, Entry(log, TagScore)),
          seen_ids |-> acc.seen_ids \cup {log.id}]

\* one iteration of `for log in tag_logs`
TagStep(acc, log) ==
    IF log.id \in acc.seen_ids
    THEN [acc EXCEPT !.results = Boost(acc.results, log.id, TagScore)]
    ELSE [results |-> Append(acc.results, Entry(log, TagScore)),
          seen_ids |-> acc.seen_ids \cup {log.id}]

\* the threshold test with >= for >
AboveThresholdInclusive(sim) == sim >= SimThreshold

\* `if sim > 0.3`
AboveThreshold(sim) == sim > SimThreshold

\* SemStep without the test on seen_ids
SemStepNoDedup(acc, log_emb, sim) ==
    IF AboveThreshold(sim)
    THEN [results |-> Append(acc.results, Entry(log_emb, sim * SemWeight)),
          seen_ids |-> acc.seen_ids \cup {log_emb.id}]
    ELSE acc

\* SemStep with the similarity of a new id taken undamped (sim * 1.0)
SemStepUndamped(acc, log_emb, sim) ==
    IF AboveThreshold(sim)
    THEN IF log_emb.id \in acc.seen_ids
         THEN [acc EXCEPT !.results = Boost(acc.results, log_emb.id, sim * SemWeight)]
         ELSE [results |-> Append(acc.results, Entry(log_emb, sim * 10)),
               seen_ids |-> acc.seen_ids \cup {log_emb.id}]
    ELSE acc

\* one iteration of `for log_emb in log_embeddings`, sim already computed
SemStep(acc, log_emb, sim) ==
    IF AboveThreshold(sim)
    THEN IF log_emb.id \in acc.seen_ids
         THEN [acc EXCEPT !.results = Boost(acc.results, log_emb.id, sim * SemWeight)]
         ELSE [results |-> Append(acc.results, Entry(log_emb, sim * SemWeight)),
               seen_ids |-> acc.seen_ids \cup {log_emb.id}]
    ELSE acc

RECURSIVE DateLoop(_, _)
DateLoop(acc, date_logs) ==
    IF date_logs = <<>> THEN acc
    ELSE DateLoop(DateStep(acc, Head(date_logs)), Tail(date_logs))

RECURSIVE TagLoop(_, _)
TagLoop(acc, tag_logs) ==
    IF tag_logs = <<>> THEN acc
    ELSE TagLoop(TagStep(acc, Head(tag_logs)), Tail(tag_logs))

\* the similarity scan; it stops, keeping what it has done, at the first
\* stored vector on which cosine_similarity raises
RECURSIVE SemLoop(_, _, _)
SemLoop(acc, query_embedding, log_embeddings) ==
    IF log_embeddings = <<>> THEN [acc |-> acc, failed |-> FALSE]
    ELSE LET log_emb == Head(log_embeddings)
         IN  IF CosineRaises(query_embedding, log_emb.embedding)
             THEN [acc |-> acc, failed |-> TRUE]
             ELSE SemLoop(SemStep(acc, log_emb,
                                  cosine_similarity(query_embedding, log_emb.embedding)),
                          query_embedding, Tail(log_embeddings))

\* DateChannel without the day added to `end`
DateChannelEndNotAdvanced(acc, tbl, it, store_fails) ==
    IF it.date_range = <<>> THEN [acc |-> acc, status |-> "skipped"]
    ELSE LET start == DayOf(it.date_range[1].start)
             end == DayOf(it.date_range[1].end)
         IN  IF start = -1 \/ end = -1 \/ store_fails
             THEN [acc |-> acc, status |-> "failed"]
             ELSE [acc |-> DateLoop(acc, get_logs_by_date_range(
                                            tbl, start * DayMs, end * DayMs)),
                   status |-> "ok"]

\* 1. Date range filtering; store_fails: get_logs_by_date_range raises
DateChannel(acc, tbl, it, store_fails) ==
    IF it.date_range = <<>> THEN [acc |-> acc, status |-> "skipped"]
    ELSE LET start == DayOf(it.date_range[1].start)
             end == DayOf(it.date_range[1].end)
         IN  IF start = -1 \/ end = -1 \/ store_fails
             THEN [acc |-> acc, status |-> "failed"]
             ELSE [acc |-> DateLoop(acc, get_logs_by_date_range(
                                            tbl, start * DayMs, (end + 1) * DayMs)),
                   status |-> "ok"]

\* 2. Tag filtering; the caller handles a raising get_logs_by_tags
TagChannel(acc, tbl, it) ==
    IF it.tags = <<>> THEN [acc |-> acc, status |-> "skipped"]
    ELSE [acc |-> TagLoop(acc, get_logs_by_tags(tbl, it.tags)), status |-> "ok"]

\* 3. Semantic search; call_fails: compute_embedding or get_log_embeddings raises
SemanticChannel(acc, tbl, it, call_fails) ==
    IF ~it.needs_rag THEN [acc |-> acc, status |-> "skipped"]
    ELSE IF call_fails THEN [acc |-> acc, status |-> "failed"]
    ELSE LET Done(scan) ==
                 [acc |-> scan.acc, status |-> IF scan.failed THEN "failed" ELSE "ok"]
         IN  Done(SemLoop(acc, EmbedText(it.semantic_query), get_log_embeddings(tbl)))

\* the fallback never taken
NeedsFallbackNever(res) == FALSE

\* the fallback taken also when the channels found a single log
NeedsFallbackWhenFew(res) == Len(res) <= 1

\* `if not results`
NeedsFallback(res) == res = <<>>

\* results = get_all_logs(limit=20); each gets retrieval_score 0.1
FallbackResults(tbl) ==
    LET recent == get_all_logs(tbl, MaxResults)
    IN  [i \in DOMAIN recent |-> Entry(recent[i], FallbackScore)]

\* an insertion that puts an entry before the entries of equal score
RECURSIVE InsertByScoreDescUnstable(_, _)
InsertByScoreDescUnstable(sorted, e) ==
    IF sorted = <<>> THEN <<e>>
    ELSE IF Head(sorted).retrieval_score > e.retrieval_score
         THEN <<Head(sorted)>> \o InsertByScoreDescUnstable(Tail(sorted), e)
         ELSE <<e>> \o sorted

\* results.sort(key=retrieval_score, reverse=True): stable, entries of equal
\* score keep their order
RECURSIVE InsertByScoreDesc(_, _)
InsertByScoreDesc(sorted, e) ==
    IF sorted = <<>> THEN <<e>>
    ELSE IF Head(sorted).retrieval_score >= e.retrieval_score
         THEN <<Head(sorted)>> \o InsertByScoreDesc(Tail(sorted), e)
         ELSE <<e>> \o sorted

RECURSIVE SortByScoreDesc(_)
SortByScoreDesc(res) ==
    IF res = <<>> THEN <<>>
    ELSE InsertByScoreDesc(SortByScoreDesc(SubSeq(res, 1, Len(res) - 1)), res[Len(res)])

\* the truncation without the sort
TopResultsNoSort(res) == Take(res, MaxResults)

\* results.sort(...); state["retrieved_logs"] = results[:20]
TopResults(res) == Take(SortByScoreDesc(res), MaxResults)

(***************************************************************************)
(* Inputs                                                                  *)
(***************************************************************************)
\* noon of 1970-01-01 and noon of 1970-01-02
Noon0 == DayMs \div 2
Noon1 == DayMs + DayMs \div 2

\* stored vectors: similarity 0.3, 0.5 and 1.0 to EmbedText("core"),
\* and 0.9, 0.5 and 0.0 to the embedding of the raw query
Sim03 == <<3, 9, 3, 1>>
Sim05 == <<1, 1, 1, 1>>
Sim10 == <<1, 0, 0, 0>>

Row(ts, tags, emb) ==
    [timestamp |-> ts, tags |-> tags, has_embedding |-> TRUE, embedding |-> emb]

\* the kinds of stored logs: by day, tags and similarity to "core"
RowKinds ==
    {Row(Noon0, <<>>, Sim03),                \* day 0, untagged, 0.3
     Row(Noon1, <<"cors", "React">>, Sim03), \* day 1, tagged, 0.3
     Row(Noon1, <<>>, Sim05),                \* day 1, untagged, 0.5
     Row(Noon0, <<"cors", "React">>, Sim10), \* day 0, tagged, 1.0
     Row(Noon1, <<"cors", "React">>, Sim10), \* day 1, tagged, 1.0
     Row(Noon1, <<>>, Sim03)}                \* day 1, untagged, 0.3

\* the rows of a block of identical logs
BulkKinds ==
    {Row(Noon0, <<>>, Sim03),
     Row(Noon0, <<"cors", "React">>, Sim10)}

BulkSize == MaxResults + BulkOver

\* ids are unique: row i of the table has id i
MkTable(kinds) ==
    [i \in DOMAIN kinds |->
        [id |-> i, timestamp |-> kinds[i].timestamp, tags |-> kinds[i].tags,
         has_embedding |-> kinds[i].has_embedding, embedding |-> kinds[i].embedding]]

FreeParts(n) == UNION {[1..k -> RowKinds] : k \in 0..n}

\* tables of up to MaxLogs rows, and tables of a block of BulkSize
\* identical rows with up to MaxBulkFree rows before and after it
Tables ==
    {MkTable(f) : f \in FreeParts(MaxLogs)}
    \cup {MkTable(fg[1] \o Repeat(k, BulkSize) \o fg[2]) :
             fg \in {x \in FreeParts(MaxBulkFree) \X FreeParts(MaxBulkFree) :
                        Len(x[1]) + Len(x[2]) <= MaxBulkFree},
             k \in BulkKinds}

Queries == {"q"}

LlmTexts ==
    {<<"{", p, "}">> : p \in Payloads}
    \cup {<<"FENCE", "{", "p2", "}", "FENCE">>,
          <<"w", "{", "p5", "}", "w">>,
          <<"w">>,
          <<"null">>,
          <<"[", "]">>}

LlmOutcomes ==
    {[raises |-> TRUE, text |-> <<>>]}
    \cup {[raises |-> FALSE, text |-> t] : t \in LlmTexts}

(***************************************************************************)
(* The pipeline                                                            *)
(***************************************************************************)
NoStatus == [date |-> "pending", tag |-> "pending", sem |-> "pending",
             fallback |-> "pending"]

\* _model = None; a loaded instance is named by a positive number
NoModel == 0

\* no concurrent invocations, no model loaded, no connection open
NoExt ==
    /\ inv = <<>>
    /\ model = NoModel
    /\ loads = 0
    /\ callers = <<>>
    /\ conns = {}

\* no request is being served
NoAsk == llm = "none" /\ answer = <<>> /\ events = <<>>

\* the pipeline runs on its own
NoCall == call = [fn |-> "none"] /\ ret = [done |-> FALSE] /\ NoAsk /\ NoExt

Init ==
    /\ table \in Tables
    /\ query \in Queries
    /\ llmOut \in LlmOutcomes
    /\ pc = "parse_intent"
    /\ intent = JNull
    /\ results = <<>>
    /\ seen_ids = {}
    /\ retrieved = <<>>
    /\ raised = "none"
    /\ status = NoStatus
    /\ afterDate = <<>>
    /\ afterTag = <<>>
    /\ afterSem = <<>>
    /\ beforeSort = <<>>
    /\ NoCall

\* node parse_intent
ParseIntent ==
    /\ UNCHANGED auxVars
    /\ pc = "parse_intent"
    /\ intent' = parse_intent(query, llmOut)
    /\ pc' = "retrieve_logs"
    /\ UNCHANGED <<table, query, llmOut, results, seen_ids, retrieved, raised,
                   status, afterDate, afterTag, afterSem, beforeSort>>

\* node retrieve_logs on an intent that is no dict: intent.get raises
RetrieveNonDict ==
    /\ UNCHANGED auxVars
    /\ pc = "retrieve_logs"
    /\ intent.kind # "object"
    /\ pc' = "raised"
    /\ raised' = "intent"
    /\ UNCHANGED <<table, query, llmOut, intent, results, seen_ids, retrieved,
                   status, afterDate, afterTag, afterSem, beforeSort>>

\* node retrieve_logs, channel 1
RetrieveDate ==
    /\ UNCHANGED auxVars
    /\ pc = "retrieve_logs"
    /\ intent.kind = "object"
    /\ \E store_fails \in (IF intent.date_range = <<>> THEN {FALSE} ELSE BOOLEAN) :
         \E r \in {DateChannel([results |-> <<>>, seen_ids |-> {}], table, intent,
                                store_fails)} :
             /\ results' = r.acc.results
             /\ seen_ids' = r.acc.seen_ids
             /\ afterDate' = r.acc.results
             /\ status' = [status EXCEPT !.date = r.status]
    /\ pc' = "tag"
    /\ UNCHANGED <<table, query, llmOut, intent, retrieved, raised,
                   afterTag, afterSem, beforeSort>>

\* node retrieve_logs, channel 2: an exception of get_logs_by_tags is not caught
RetrieveTag ==
    /\ UNCHANGED auxVars
    /\ pc = "tag"
    /\ \E store_fails \in (IF intent.tags = <<>> THEN {FALSE} ELSE BOOLEAN) :
         IF store_fails
         THEN /\ pc' = "raised"
              /\ raised' = "tag"
              /\ status' = [status EXCEPT !.tag = "failed"]
              /\ UNCHANGED <<results, seen_ids, afterTag>>
         ELSE \E r \in {TagChannel([results |-> results, seen_ids |-> seen_ids],
                                    table, intent)} :
                  /\ results' = r.acc.results
                  /\ seen_ids' = r.acc.seen_ids
                  /\ afterTag' = r.acc.results
                  /\ status' = [status EXCEPT !.tag = r.status]
                  /\ pc' = "semantic"
                  /\ UNCHANGED raised
    /\ UNCHANGED <<table, query, llmOut, intent, retrieved, afterDate, afterSem,
                   beforeSort>>

\* node retrieve_logs, channel 3
RetrieveSemantic ==
    /\ UNCHANGED auxVars
    /\ pc = "semantic"
    /\ \E call_fails \in (IF intent.needs_rag THEN BOOLEAN ELSE {FALSE}) :
         \E r \in {SemanticChannel([results |-> results, seen_ids |-> seen_ids],
                                    table, intent, call_fails)} :
             /\ results' = r.acc.results
             /\ seen_ids' = r.acc.seen_ids
             /\ afterSem' = r.acc.results
             /\ status' = [status EXCEPT !.sem = r.status]
    /\ pc' = "finalize"
    /\ UNCHANGED <<table, query, llmOut, intent, retrieved, raised, afterDate,
                   afterTag, beforeSort>>

\* node retrieve_logs, fallback, sort and truncation: an exception of
\* get_all_logs is not caught
RetrieveFinalize ==
    /\ UNCHANGED auxVars
    /\ pc = "finalize"
    /\ \E store_fails \in (IF NeedsFallback(results) THEN BOOLEAN ELSE {FALSE}) :
         IF store_fails
         THEN /\ pc' = "raised"
              /\ raised' = "fallback"
              /\ status' = [status EXCEPT !.fallback = "failed"]
              /\ UNCHANGED <<results, retrieved, beforeSort>>
         ELSE \E res \in {IF NeedsFallback(results) THEN FallbackResults(table)
                            ELSE results} :
                  /\ beforeSort' = res
                  /\ results' = SortByScoreDesc(res)
                  /\ retrieved' = TopResults(res)
                  /\ status' = [status EXCEPT !.fallback =
                                   IF NeedsFallback(results) THEN "ran" ELSE "no"]
                  /\ pc' = "done"
                  /\ UNCHANGED raised
    /\ UNCHANGED <<table, query, llmOut, intent, seen_ids, afterDate, afterTag,
                   afterSem>>

Next ==
    \/ ParseIntent
    \/ RetrieveNonDict
    \/ RetrieveDate
    \/ RetrieveTag
    \/ RetrieveSemantic
    \/ RetrieveFinalize

Spec == Init /\ [][Next]_vars

(***************************************************************************)
(* The pipeline on logs written at the first and last millisecond of a     *)
(* day.  Local time is taken to be UTC, so that strptime("1970-01-01")     *)
(* .timestamp() is 0.                                                      *)
(***************************************************************************)
MaxBoundaryLogs == 2

\* 00:00:00.000 and 23:59:59.999 of 1970-01-01 and of 1970-01-02, and the
\* first two milliseconds of 1970-01-03
BoundaryTimes ==
    {0, DayMs - 1, DayMs, 2 * DayMs - 1, 2 * DayMs, 2 * DayMs + 1}

BoundaryTables ==
    {MkTable(f) : f \in UNION {[1..k -> {Row(ts, <<>>, Sim03) : ts \in BoundaryTimes}] :
                                  k \in 0..MaxBoundaryLogs}}

BoundaryOutcomes ==
    {[raises |-> FALSE, text |-> <<"{", p, "}">>] : p \in RangePayloads}
    \cup {[raises |-> FALSE, text |-> <<"null">>]}

InitBoundary ==
    /\ table \in BoundaryTables
    /\ query \in Queries
    /\ llmOut \in BoundaryOutcomes
    /\ pc = "parse_intent"
    /\ intent = JNull
    /\ results = <<>>
    /\ seen_ids = {}
    /\ retrieved = <<>>
    /\ raised = "none"
    /\ status = NoStatus
    /\ afterDate = <<>>
    /\ afterTag = <<>>
    /\ afterSem = <<>>
    /\ beforeSort = <<>>
    /\ NoCall

SpecBoundary == InitBoundary /\ [][Next]_vars

(***************************************************************************)
(* Functions called on their own: the store holds `table`, `call` holds    *)
(* the arguments and `ret` the outcome.                                    *)
(***************************************************************************)
MaxTagLogs == 2

\* tags_json of the stored logs and the tag names asked for
StoredTagLists ==
    {<<>>, <<"React">>, <<"react">>, <<"React Native">>, <<"CORS", "React Native">>}

AskedTagLists ==
    {<<"React">>, <<"REACT">>, <<"react">>, <<"CORS">>, <<"React Native">>,
     <<"cors", "React">>}

TagTables ==
    {MkTable(f) : f \in UNION {[1..k -> {Row(ts, tg, Sim03) :
                                            ts \in {Noon0, Noon1}, tg \in StoredTagLists}] :
                                  k \in 0..MaxTagLogs}}

\* provider names (request override and AI_PROVIDER) and API keys
ProviderNames == {None, "", "deepseek", "Gemini", "openai", "claude"}
ApiKeys == {None, "", "key"}

Environments ==
    [AI_PROVIDER : ProviderNames, DEEPSEEK_API_KEY : ApiKeys,
     GEMINI_API_KEY : ApiKeys, OPENAI_API_KEY : ApiKeys]

\* model texts: every sequence of up to MaxTextLen tokens
MaxTextLen == 5
TextTokens == {"FENCE", "{", "}", "p1", "w"}
ModelTexts == UNION {[1..k -> TextTokens] : k \in 0..MaxTextLen}

\* vectors of up to MaxDim integer coordinates whose norm is an integer
MaxDim == 3
MaxCoord == 3
ModelVectors ==
    {v \in UNION {[1..k -> (0 - MaxCoord)..MaxCoord] : k \in 0..MaxDim} :
        Norm(v) * Norm(v) = Dot(v, v)}

\* the pairs cosine_similarity is called on: a vector with itself, and a
\* vector of zero norm with any vector, of the same length or not
ZeroVectors == {[i \in 1..k |-> 0] : k \in 0..MaxDim}
VectorPairs ==
    {<<v, v>> : v \in ModelVectors}
    \cup (ZeroVectors \X ModelVectors)
    \cup (ModelVectors \X ZeroVectors)

\* batch_process_entries (services/tag_extraction.py): the entries, with
\* distinct ids, and what generate_json gives for the batch prompt
MaxEntries == 2
BatchEntries ==
    {[i \in 1..n |-> [id |-> <<"e1", "e2", "e3", "e4">>[i],
                       content |-> <<"c1", "c2", "c3", "c4">>[i]]] : n \in 0..MaxEntries}

\* one element of "results": an index from below -len(entries) to len(entries),
\* no index, no summary, or tags that Tag(**t) rejects
BatchResults ==
    {[index |-> k, summary |-> "s", tags |-> "ok"] : k \in (0 - MaxEntries - 1)..MaxEntries}
    \cup {[summary |-> "s", tags |-> "ok"],
          [index |-> 0, tags |-> "ok"],
          [index |-> 0, summary |-> "s", tags |-> "bad"]}

\* get_llm raises; generate_json raises, gives an array, an object without
\* "results", or an object with them
BatchOutcomes ==
    {[kind |-> "no_llm"], [kind |-> "raises"], [kind |-> "array"], [kind |-> "object"]}
    \cup {[kind |-> "object", results |-> rs] :
            rs \in UNION {[1..k -> BatchResults] : k \in 0..MaxEntries}}

\* entries[idx] of Python: a negative idx counts from the end; 0 stands for
\* IndexError
PyIndex(n, idx) ==
    IF idx >= 0 /\ idx < n THEN idx + 1
    ELSE IF idx < 0 /\ idx >= 0 - n THEN n + idx + 1
    ELSE 0

\* the loop `for r in result.get("results", [])`: an exception ends it and
\* result_map stays as it is
RECURSIVE BatchLoop(_, _, _)
BatchLoop(entries, rs, result_map) ==
    IF rs = <<>> THEN result_map
    ELSE LET r == Head(rs)
         IN  IF "index" \in DOMAIN r /\ r.index < Len(entries)
             THEN IF PyIndex(Len(entries), r.index) = 0 \/ r.tags = "bad"
                  THEN result_map
                  ELSE LET entry == entries[PyIndex(Len(entries), r.index)]
                           \* entry["content"][:50] is the content, which is short
                           value == [summary |-> IF "summary" \in DOMAIN r THEN r.summary
                                                 ELSE entry.content,
                                     index |-> r.index]
                           others == DOMAIN result_map \ {entry.id}
                       IN  BatchLoop(entries, Tail(rs),
                                     [id \in others \cup {entry.id} |->
                                         IF id = entry.id THEN value ELSE result_map[id]])
             ELSE BatchLoop(entries, Tail(rs), result_map)

\* the map from entry id to result; `index` is kept with each value to tell
\* which result it came from
batch_process_entries(entries, out) ==
    IF entries = <<>> THEN <<>>
    ELSE IF out.kind = "object" /\ "results" \in DOMAIN out
         THEN BatchLoop(entries, out.results, <<>>)
         ELSE <<>>

\* the pipeline is not running
PipeIdle ==
    /\ query = "q"
    /\ llmOut = [raises |-> TRUE, text |-> <<>>]
    /\ pc = "idle"
    /\ intent = JNull
    /\ results = <<>>
    /\ seen_ids = {}
    /\ retrieved = <<>>
    /\ raised = "none"
    /\ status = NoStatus
    /\ afterDate = <<>>
    /\ afterTag = <<>>
    /\ afterSem = <<>>
    /\ beforeSort = <<>>

InitCalls ==
    /\ PipeIdle
    /\ NoAsk
    /\ NoExt
    /\ ret = [done |-> FALSE]
    /\ \/ /\ table \in TagTables
          /\ call \in {[fn |-> "get_logs_by_tags", tag_names |-> t] : t \in AskedTagLists}
       \/ /\ table = <<>>
          /\ call \in {[fn |-> "get_llm", provider |-> o, env |-> e] :
                          o \in ProviderNames, e \in Environments}
       \/ /\ table = <<>>
          /\ call \in {[fn |-> "_extract_json", text |-> t] : t \in ModelTexts}
       \/ /\ table = <<>>
          /\ call \in {[fn |-> "cosine_similarity", vec1 |-> vw[1], vec2 |-> vw[2]] :
                          vw \in VectorPairs}
       \/ /\ table = <<>>
          /\ call \in {[fn |-> "batch_process_entries", entries |-> es, out |-> o] :
                          es \in BatchEntries, o \in BatchOutcomes}

Call_get_logs_by_tags ==
    /\ call.fn = "get_logs_by_tags"
    /\ ~ret.done
    /\ ret' = [done |-> TRUE, raises |-> FALSE,
               value |-> get_logs_by_tags(table, call.tag_names)]
    /\ UNCHANGED <<table, call, pipeVars, askVars, extVars>>

Call_get_llm ==
    /\ call.fn = "get_llm"
    /\ ~ret.done
    /\ \E r \in {get_llm(call.provider, call.env)} :
          ret' = [done |-> TRUE, raises |-> r.raises, value |-> r.llm]
    /\ UNCHANGED <<table, call, pipeVars, askVars, extVars>>

Call_extract_json ==
    /\ call.fn = "_extract_json"
    /\ ~ret.done
    /\ \E r \in {extract_json(call.text)} :
          ret' = [done |-> TRUE, raises |-> ~r.ok,
                  value |-> IF r.ok THEN r.value ELSE JNull]
    /\ UNCHANGED <<table, call, pipeVars, askVars, extVars>>

\* np.dot raises before the norms are looked at
Call_cosine_similarity ==
    /\ call.fn = "cosine_similarity"
    /\ ~ret.done
    /\ ret' = IF CosineRaises(call.vec1, call.vec2)
              THEN [done |-> TRUE, raises |-> TRUE, value |-> 0]
              ELSE [done |-> TRUE, raises |-> FALSE,
                    value |-> cosine_similarity(call.vec1, call.vec2)]
    /\ UNCHANGED <<table, call, pipeVars, askVars, extVars>>

Call_batch_process_entries ==
    /\ call.fn = "batch_process_entries"
    /\ ~ret.done
    /\ ret' = IF call.entries # <<>> /\ call.out.kind = "no_llm"
              THEN [done |-> TRUE, raises |-> TRUE, value |-> <<>>]
              ELSE [done |-> TRUE, raises |-> FALSE,
                    value |-> batch_process_entries(call.entries, call.out)]
    /\ UNCHANGED <<table, call, pipeVars, askVars, extVars>>

NextCalls ==
    \/ Call_batch_process_entries
    \/ Call_get_logs_by_tags
    \/ Call_get_llm
    \/ Call_extract_json
    \/ Call_cosine_similarity

SpecCalls == InitCalls /\ [][NextCalls]_vars

(***************************************************************************)
(* The endpoints: src/backend/routers/agent.py                             *)
(*   ask_brain:        get_llm, BrainAgent.run (parse_intent,              *)
(*                     retrieve_logs, generate_answer), AskResponse        *)
(*   ask_brain_stream: get_llm, _parse_intent, _retrieve_logs, then the    *)
(*                     event generator of the StreamingResponse            *)
(* `call.gen` is what the model does for the answer prompt: the fragments  *)
(* it produces, and whether the call then fails.                           *)
(***************************************************************************)
MaxFragments == 2

\* the answer text of the except branch of _generate_answer
ErrorAnswer == <<"Sorry, I encountered an error: ", "e">>

\* _generate_answer without its try/except
generate_answer_uncaught(gen) ==
    [raises |-> gen.fails, answer |-> gen.fragments]

\* _generate_answer: llm.generate(prompt), or the error text
generate_answer(gen) ==
    [raises |-> FALSE, answer |-> IF gen.fails THEN ErrorAnswer ELSE gen.fragments]

\* the events of event_generator
MetadataEvent(it, logs) == [type |-> "metadata", intent |-> it, log_count |-> Len(logs)]
ContentEvent(chunk) == [type |-> "content", content |-> chunk]
DoneEvent == [type |-> "[DONE]"]

AskTables ==
    {<<>>,
     MkTable(<<Row(Noon0, <<"cors", "React">>, Sim10)>>),
     MkTable(<<Row(Noon0, <<>>, Sim03), Row(Noon1, <<"cors", "React">>, Sim05)>>)}

\* the intent call fails, gives an intent without or with filters, or null
AskOutcomes ==
    {[raises |-> TRUE, text |-> <<>>],
     [raises |-> FALSE, text |-> <<"{", "p1", "}">>],
     [raises |-> FALSE, text |-> <<"{", "p5", "}">>],
     [raises |-> FALSE, text |-> <<"null">>]}

AskEnvironments ==
    {[AI_PROVIDER |-> "deepseek", DEEPSEEK_API_KEY |-> d, GEMINI_API_KEY |-> g,
      OPENAI_API_KEY |-> None] : d \in {None, "key"}, g \in {None, "key"}}

GenOutcomes ==
    {[fragments |-> Take(<<"a", "b", "c", "d">>, k), fails |-> f] :
        k \in 0..MaxFragments, f \in BOOLEAN}

InitAsk ==
    /\ table \in AskTables
    /\ query \in Queries
    /\ llmOut \in AskOutcomes
    /\ pc = "ask"
    /\ intent = JNull
    /\ results = <<>>
    /\ seen_ids = {}
    /\ retrieved = <<>>
    /\ raised = "none"
    /\ status = NoStatus
    /\ afterDate = <<>>
    /\ afterTag = <<>>
    /\ afterSem = <<>>
    /\ beforeSort = <<>>
    /\ call \in {[fn |-> f, llm_provider |-> o, env |-> e, gen |-> g] :
                    f \in {"ask_brain", "ask_brain_stream"}, o \in {None, "Gemini"},
                    e \in AskEnvironments, g \in GenOutcomes}
    /\ ret = [done |-> FALSE]
    /\ NoAsk
    /\ NoExt

\* llm = get_llm(request.llm_provider); a ValueError becomes HTTP 500
AskGetLlm ==
    /\ UNCHANGED extVars
    /\ pc = "ask"
    /\ \E r \in {get_llm(call.llm_provider, call.env)} :
          IF r.raises
          THEN /\ pc' = "http500"
               /\ ret' = [done |-> TRUE, status |-> 500]
               /\ UNCHANGED llm
          ELSE /\ pc' = "parse_intent"
               /\ llm' = r.llm
               /\ UNCHANGED ret
    /\ UNCHANGED <<table, query, llmOut, intent, results, seen_ids, retrieved, raised,
                   status, afterDate, afterTag, afterSem, beforeSort, call, answer,
                   events>>

\* except Exception: raise HTTPException(status_code=500), of both endpoints
AskRaised ==
    /\ UNCHANGED extVars
    /\ pc = "raised"
    /\ pc' = "http500"
    /\ ret' = [done |-> TRUE, status |-> 500]
    /\ UNCHANGED <<table, query, llmOut, intent, results, seen_ids, retrieved, raised,
                   status, afterDate, afterTag, afterSem, beforeSort, call, llm, answer,
                   events>>

\* node generate_answer
GenerateAnswer ==
    /\ UNCHANGED extVars
    /\ pc = "done"
    /\ call.fn = "ask_brain"
    /\ \E r \in {generate_answer(call.gen)} :
          IF r.raises
          THEN pc' = "raised" /\ raised' = "generate" /\ UNCHANGED answer
          ELSE pc' = "generated" /\ answer' = r.answer /\ UNCHANGED raised
    /\ UNCHANGED <<table, query, llmOut, intent, results, seen_ids, retrieved,
                   status, afterDate, afterTag, afterSem, beforeSort, call, ret, llm,
                   events>>

\* run returns answer, retrieved_logs and intent; ask_brain returns AskResponse
AskReturn ==
    /\ UNCHANGED extVars
    /\ pc = "generated"
    /\ pc' = "responded"
    /\ ret' = [done |-> TRUE, status |-> 200, answer |-> answer,
               retrieved_logs |-> retrieved, intent |-> intent]
    /\ UNCHANGED <<table, query, llmOut, intent, results, seen_ids, retrieved, raised,
                   status, afterDate, afterTag, afterSem, beforeSort, call, llm, answer,
                   events>>

\* ask_brain_stream returns the StreamingResponse; event_generator sends the
\* metadata event
StreamMetadata ==
    /\ UNCHANGED extVars
    /\ pc = "done"
    /\ call.fn = "ask_brain_stream"
    /\ pc' = "streaming"
    /\ ret' = [done |-> TRUE, status |-> 200]
    /\ events' = <<MetadataEvent(intent, retrieved)>>
    /\ UNCHANGED <<table, query, llmOut, intent, results, seen_ids, retrieved, raised,
                   status, afterDate, afterTag, afterSem, beforeSort, call, llm, answer>>

\* async for chunk in llm.generate_stream(prompt): one content event
StreamContent ==
    /\ UNCHANGED extVars
    /\ pc = "streaming"
    /\ Len(events) - 1 < Len(call.gen.fragments)
    /\ events' = Append(events, ContentEvent(call.gen.fragments[Len(events)]))
    /\ UNCHANGED <<table, query, llmOut, pc, intent, results, seen_ids, retrieved,
                   raised, status, afterDate, afterTag, afterSem, beforeSort, call, ret,
                   llm, answer>>

\* generate_stream is exhausted: the [DONE] event
StreamDone ==
    /\ UNCHANGED extVars
    /\ pc = "streaming"
    /\ Len(events) - 1 = Len(call.gen.fragments)
    /\ ~call.gen.fails
    /\ events' = Append(events, DoneEvent)
    /\ pc' = "stream_closed"
    /\ UNCHANGED <<table, query, llmOut, intent, results, seen_ids, retrieved,
                   raised, status, afterDate, afterTag, afterSem, beforeSort, call, ret,
                   llm, answer>>

\* generate_stream raises inside event_generator: nothing catches it there,
\* the response ends
StreamRaises ==
    /\ UNCHANGED extVars
    /\ pc = "streaming"
    /\ Len(events) - 1 = Len(call.gen.fragments)
    /\ call.gen.fails
    /\ pc' = "stream_broken"
    /\ UNCHANGED <<table, query, llmOut, intent, results, seen_ids, retrieved,
                   raised, status, afterDate, afterTag, afterSem, beforeSort, call, ret,
                   llm, answer, events>>

NextAsk ==
    \/ AskGetLlm
    \/ ParseIntent
    \/ RetrieveNonDict
    \/ RetrieveDate
    \/ RetrieveTag
    \/ RetrieveSemantic
    \/ RetrieveFinalize
    \/ AskRaised
    \/ GenerateAnswer
    \/ AskReturn
    \/ StreamMetadata
    \/ StreamContent
    \/ StreamDone
    \/ StreamRaises

SpecAsk == InitAsk /\ [][NextAsk]_vars

(***************************************************************************)
(* Vocabulary of the properties                                            *)
(***************************************************************************)
\* _retrieve_logs has returned
Returned == pc = "done"

\* the stored row of an id (MkTable: row i has id i)
RowOf(id) == table[id]

\* no two positions of s hold the same id
DistinctIds(s) == \A i, j \in DOMAIN s : i # j => s[i].id # s[j].id

\* the retrieval_score s holds for id
ScoreIn(s, id) == s[IndexOfId(s, id)].retrieval_score

\* the similarity of a stored row to the query embedding, in thousandths
SimOf(row) == cosine_similarity(EmbedText(intent.semantic_query), row.embedding)

\* the row's timestamp falls on a calendar day from start through end
OnRequestedDays(row) ==
    /\ intent.date_range # <<>>
    /\ DayOf(intent.date_range[1].start) # -1
    /\ DayOf(intent.date_range[1].end) # -1
    /\ row.timestamp >= DayOf(intent.date_range[1].start) * 86400000
    /\ row.timestamp < (DayOf(intent.date_range[1].end) + 1) * 86400000

\* what each channel gave the row, in ten-thousandths
DatePart(row) == IF status.date = "ok" /\ OnRequestedDays(row) THEN 10000 ELSE 0

TagPart(row) ==
    IF status.tag = "ok"
       /\ \E i \in DOMAIN row.tags, j \in DOMAIN intent.tags :
            Lower(row.tags[i]) = Lower(intent.tags[j])
    THEN 3000 ELSE 0

SemPart(row) == IF status.sem = "ok" /\ SimOf(row) > 300 THEN 7 * SimOf(row) ELSE 0

\* the ids of the rows on the requested days
DateMatched == {id \in DOMAIN table : OnRequestedDays(RowOf(id))}

(***************************************************************************)
(* C1: the sequence returned by _retrieve_logs holds each log id at most   *)
(* once, whichever channels and fallback contributed (and so does the      *)
(* list under construction at every step).                                 *)
(***************************************************************************)
C1_NoDuplicateIds == DistinctIds(results) /\ DistinctIds(retrieved)

\* a run where one log was returned by all three channels
C1_Witness ==
    /\ Returned
    /\ status.date = "ok" /\ status.tag = "ok" /\ status.sem = "ok"
    /\ \E i \in DOMAIN retrieved :
         /\ retrieved[i].id \in Ids(afterDate)
         /\ ScoreIn(afterTag, retrieved[i].id) > ScoreIn(afterDate, retrieved[i].id)
         /\ ScoreIn(afterSem, retrieved[i].id) > ScoreIn(afterTag, retrieved[i].id)
    /\ Len(retrieved) > 1

(***************************************************************************)
(* C2 as stated: when the date channel ran, every stored log on the        *)
(* requested days is in the returned sequence, with score >= 1.0, and      *)
(* exactly 1.0 when no other channel contributed to it -- for every        *)
(* number N of such logs.                                                  *)
(***************************************************************************)
C2_AllDateMatchesReturned ==
    (Returned /\ status.date = "ok") =>
        \A id \in DateMatched :
            /\ id \in Ids(retrieved)
            /\ ScoreIn(retrieved, id) >= 10000
            /\ (TagPart(RowOf(id)) = 0 /\ SemPart(RowOf(id)) = 0)
                   => ScoreIn(retrieved, id) = 10000

(***************************************************************************)
(* C2 amended: when the date channel ran and N logs are on the requested   *)
(* days, min(N, 20) of them are returned: all N when N <= 20, and 20 of    *)
(* them and nothing else when N > 20; each with score >= 1.0, and exactly  *)
(* 1.0 when no other channel contributed to it.                            *)
(***************************************************************************)
C2_DateMatchesReturnedUpToCap ==
    (Returned /\ status.date = "ok") =>
        /\ \A id \in DateMatched \cap Ids(retrieved) :
              /\ ScoreIn(retrieved, id) >= 10000
              /\ (TagPart(RowOf(id)) = 0 /\ SemPart(RowOf(id)) = 0)
                     => ScoreIn(retrieved, id) = 10000
        /\ Cardinality(DateMatched) <= 20 => DateMatched \subseteq Ids(retrieved)
        /\ Cardinality(DateMatched) > 20 =>
              /\ Len(retrieved) = 20
              /\ Ids(retrieved) \subseteq DateMatched

\* more than 20 logs on the requested days, beside a log that is not
C2_Witness ==
    /\ Returned /\ status.date = "ok"
    /\ Cardinality(DateMatched) > 20
    /\ Len(table) > Cardinality(DateMatched)
    /\ Len(afterSem) > Cardinality(DateMatched)

(***************************************************************************)
(* C3: the returned sequence is ordered by retrieval_score descending and  *)
(* holds at most 20 entries.                                               *)
(***************************************************************************)
C3_SortedAndCapped ==
    Returned =>
        /\ Len(retrieved) <= 20
        /\ \A i, j \in DOMAIN retrieved :
              i < j => retrieved[i].retrieval_score >= retrieved[j].retrieval_score

\* more than 20 entries accumulated, the first of them not the best
C3_Witness ==
    /\ Returned
    /\ Len(beforeSort) > 20
    /\ \E i \in DOMAIN beforeSort :
          beforeSort[i].retrieval_score > beforeSort[1].retrieval_score

(***************************************************************************)
(* C4: when the fallback did not run, the final score of every log is      *)
(* 1.0 if the date channel returned it, plus 0.3 if the tag channel        *)
(* returned it (once), plus 0.7 * similarity if the semantic channel ran   *)
(* and the similarity is > 0.3; a date-only log (1.0), a log found by a    *)
(* similarity of 0.5 only (0.35) and a tag-only log (0.3) are returned in  *)
(* that order.                                                             *)
(***************************************************************************)
C4_ScoreIsSumOfContributions ==
    (Returned /\ status.fallback = "no") =>
        /\ \A i \in DOMAIN results :
              results[i].retrieval_score =
                  DatePart(RowOf(results[i].id)) + TagPart(RowOf(results[i].id))
                  + SemPart(RowOf(results[i].id))
        /\ \A a \in DOMAIN retrieved :
              LET DateOnly(r) == DatePart(r) > 0 /\ TagPart(r) = 0 /\ SemPart(r) = 0
                  TagOnly(r) == DatePart(r) = 0 /\ TagPart(r) > 0 /\ SemPart(r) = 0
                  HalfOnly(r) == DatePart(r) = 0 /\ TagPart(r) = 0 /\ SimOf(r) = 500
                                 /\ SemPart(r) > 0
                  ra == RowOf(retrieved[a].id)
                  Before(b) == RowOf(retrieved[b].id)
              IN  /\ DateOnly(ra) =>
                        /\ retrieved[a].retrieval_score = 10000
                        /\ \A b \in 1..(a - 1) :
                              ~HalfOnly(Before(b)) /\ ~TagOnly(Before(b))
                  /\ HalfOnly(ra) =>
                        /\ retrieved[a].retrieval_score = 3500
                        /\ \A b \in 1..(a - 1) : ~TagOnly(Before(b))
                  /\ TagOnly(ra) => retrieved[a].retrieval_score = 3000

\* the scenario: exactly a date-only, a similarity-only and a tag-only log
C4_Witness ==
    /\ Returned /\ status.fallback = "no"
    /\ Len(retrieved) = 3
    /\ retrieved[1].retrieval_score = 10000
    /\ retrieved[2].retrieval_score = 3500
    /\ retrieved[3].retrieval_score = 3000
    /\ retrieved[3].timestamp > retrieved[1].timestamp

(***************************************************************************)
(* C5 as stated: a failing channel never makes _retrieve_logs raise; the   *)
(* failed channel adds nothing and the other channels' results stand.      *)
(***************************************************************************)
C5_ChannelFailureAbsorbed ==
    /\ \A c \in {"date", "tag", "sem"} : status[c] = "failed" => raised \notin {"tag"}
    /\ (status.date = "failed" /\ pc \notin {"parse_intent", "retrieve_logs"})
           => afterDate = <<>>
    /\ (status.sem = "failed" /\ pc \in {"finalize", "done"}) => afterSem = afterTag

(***************************************************************************)
(* C6 as stated: whenever the model call fails or its text holds no JSON   *)
(* object, the intent handed to retrieval is the default intent, and       *)
(* retrieval is never handed anything that is not an intent object.        *)
(***************************************************************************)
HoldsObject(text) ==
    \E i \in DOMAIN text :
        /\ i + 2 <= Len(text)
        /\ text[i] = "{" /\ text[i + 1] \in Payloads /\ text[i + 2] = "}"

C6_DefaultIntentOnFailure ==
    pc # "parse_intent" =>
        /\ intent.kind = "object"
        /\ raised # "intent"
        /\ (llmOut.raises \/ ~HoldsObject(llmOut.text)) => intent = DefaultIntent(query)

IdSeq(s) == [i \in DOMAIN s |-> s[i].id]

IsPrefix(s, t) == Len(s) <= Len(t) /\ \A i \in DOMAIN s : s[i] = t[i]

\* s is a subsequence of the store order restricted to positions from..Len(s)
StoreOrdered(s, from) ==
    \A i, j \in from..Len(s) :
        i < j => \/ RowOf(s[i].id).timestamp > RowOf(s[j].id).timestamp
                 \/ /\ RowOf(s[i].id).timestamp = RowOf(s[j].id).timestamp
                    /\ s[i].id < s[j].id

C9_TiesKeepInsertionOrder ==
    /\ pc \in {"finalize", "done"} =>
          /\ IsPrefix(IdSeq(afterDate), IdSeq(afterTag))
          /\ IsPrefix(IdSeq(afterTag), IdSeq(afterSem))
          /\ StoreOrdered(afterDate, 1)
          /\ StoreOrdered(afterTag, Len(afterDate) + 1)
          /\ StoreOrdered(afterSem, Len(afterTag) + 1)
    /\ Returned =>
          /\ status.fallback = "no" => IdSeq(beforeSort) = IdSeq(afterSem)
          /\ status.fallback = "ran" => StoreOrdered(beforeSort, 1)
          /\ \A i, j \in DOMAIN retrieved :
                (i < j /\ retrieved[i].retrieval_score = retrieved[j].retrieval_score)
                    => IndexOfId(beforeSort, retrieved[i].id)
                           < IndexOfId(beforeSort, retrieved[j].id)

\* a tie between a date-channel entry and a more recent log that the tag
\* and semantic channels found
C9_Witness ==
    /\ Returned
    /\ \E i, j \in DOMAIN retrieved :
          /\ i < j
          /\ retrieved[i].retrieval_score = retrieved[j].retrieval_score
          /\ retrieved[i].id \in Ids(afterDate)
          /\ retrieved[j].id \notin Ids(afterDate)
          /\ retrieved[j].timestamp > retrieved[i].timestamp
          /\ retrieved[j].id < retrieved[i].id

(***************************************************************************)
(* C10: a log whose similarity to the query embedding is <= 0.3 gets       *)
(* nothing from the semantic channel: it is neither inserted nor boosted   *)
(* by it, and is in the output only if the date channel, the tag channel   *)
(* or the fallback produced it.                                            *)
(***************************************************************************)
C10_BelowThresholdUntouched ==
    pc \in {"finalize", "done"} =>
        \A id \in DOMAIN table :
            SimOf(RowOf(id)) <= 300 =>
                /\ id \in Ids(afterSem) <=> id \in Ids(afterTag)
                /\ id \in Ids(afterSem) => ScoreIn(afterSem, id) = ScoreIn(afterTag, id)
                /\ (Returned /\ id \in Ids(retrieved))
                      => \/ id \in Ids(afterDate)
                         \/ id \in Ids(afterTag)
                         \/ status.fallback = "ran"

\* the semantic channel ran over a log of similarity exactly 0.3 that the
\* date channel had returned, and over one it inserted
C10_Witness ==
    /\ Returned /\ status.sem = "ok"
    /\ \E id \in DOMAIN table :
          /\ SimOf(RowOf(id)) = 300
          /\ id \in Ids(afterDate)
          /\ id \in Ids(retrieved)
    /\ \E id \in DOMAIN table : SimOf(RowOf(id)) = 300 /\ id \notin Ids(retrieved)
    /\ Len(afterSem) > Len(afterTag)

(***************************************************************************)
(* C11 as stated: the date channel selects exactly the stored logs whose   *)
(* timestamp falls on a calendar day from the start date through the end   *)
(* date: start 00:00 <= timestamp < (end + 1 day) 00:00.                   *)
(***************************************************************************)
C11_DateChannelSelectsCalendarDays ==
    (status.date = "ok" /\ pc \notin {"parse_intent", "retrieve_logs"})
        => Ids(afterDate) = DateMatched

(***************************************************************************)
(* C12: get_logs_by_tags returns exactly the logs that have at least one   *)
(* tag whose name equals, ignoring case, one of the requested names; a tag *)
(* name that merely contains a requested name does not match.              *)
(***************************************************************************)
\* the spellings of one name
Spellings ==
    {{"React", "react", "REACT"}, {"CORS", "cors"}, {"React Native", "react native"}}

EqualIgnoringCase(a, b) == a = b \/ \E c \in Spellings : a \in c /\ b \in c

HasRequestedTag(row, names) ==
    \E i \in DOMAIN row.tags, j \in DOMAIN names :
        EqualIgnoringCase(row.tags[i], names[j])

C12_TagMatchExactIgnoringCase ==
    (call.fn = "get_logs_by_tags" /\ ret.done) =>
        /\ ~ret.raises
        /\ DistinctIds(ret.value)
        /\ Ids(ret.value) =
              {id \in DOMAIN table : HasRequestedTag(RowOf(id), call.tag_names)}

\* "React" is asked for; a log tagged "react" is returned and a log tagged
\* only "React Native" is not
C12_Witness ==
    /\ call.fn = "get_logs_by_tags" /\ ret.done
    /\ call.tag_names = <<"React">>
    /\ \E id \in Ids(ret.value) : RowOf(id).tags = <<"react">>
    /\ \E id \in DOMAIN table :
          RowOf(id).tags = <<"React Native">> /\ id \notin Ids(ret.value)

(***************************************************************************)
(* C13: a log found only by the semantic channel has retrieval_score at    *)
(* most 0.7 and is never ranked ahead of a log returned by the date        *)
(* channel.                                                                *)
(***************************************************************************)
\* the returned entry at position i was found by the semantic channel only
SemanticOnly(i) ==
    /\ status.fallback = "no"
    /\ retrieved[i].id \notin Ids(afterTag)
    /\ retrieved[i].id \in Ids(afterSem)

ScoresNeverDecrease ==
    \A id \in Ids(results) :
        /\ id \in Ids(results')
        /\ ScoreIn(results', id) >= ScoreIn(results, id)
        /\ (pc = "tag" /\ status'.tag = "ok" /\ TagMatches(RowOf(id), intent.tags))
              => ScoreIn(results', id) > ScoreIn(results, id)
        /\ (pc = "semantic" /\ status'.sem = "ok" /\ AboveThreshold(SimOf(RowOf(id))))
              => ScoreIn(results', id) > ScoreIn(results, id)

C14_ScoresMonotone == [][ScoresNeverDecrease]_vars

\* a log inserted by the date channel at 1.0, raised by the tag channel and
\* raised again by the semantic channel
C14_Witness ==
    /\ pc \in {"finalize", "done"}
    /\ \E id \in Ids(afterDate) :
          /\ ScoreIn(afterDate, id) = 10000
          /\ ScoreIn(afterTag, id) > ScoreIn(afterDate, id)
          /\ ScoreIn(afterSem, id) > ScoreIn(afterTag, id)

(***************************************************************************)
(* C18 as stated: get_llm returns the override's provider if its           *)
(* credential is available; otherwise the provider AI_PROVIDER names if    *)
(* its credential is available; otherwise the first of DeepSeek, Gemini,   *)
(* OpenAI whose credential is available.                                   *)
(***************************************************************************)
\* the credential of the provider a name denotes
KeyOf(name, env) ==
    CASE Lower(name) = "deepseek" -> env.DEEPSEEK_API_KEY
      [] Lower(name) = "gemini" -> env.GEMINI_API_KEY
      [] Lower(name) = "openai" -> env.OPENAI_API_KEY
      [] OTHER -> None

ClassOf(name) ==
    CASE Lower(name) = "deepseek" -> "DeepSeek"
      [] Lower(name) = "gemini" -> "Gemini"
      [] Lower(name) = "openai" -> "OpenAI"
      [] OTHER -> "none"

Usable(name, env) == KeyOf(name, env) \notin {None, ""}

FirstWithKey(env) ==
    IF Usable("deepseek", env) THEN "DeepSeek"
    ELSE IF Usable("gemini", env) THEN "Gemini"
    ELSE IF Usable("openai", env) THEN "OpenAI"
    ELSE "none"

C18_OverrideThenEnvThenAuto ==
    (call.fn = "get_llm" /\ ret.done) =>
        ret.value = IF Usable(call.provider, call.env) THEN ClassOf(call.provider)
                    ELSE IF Usable(call.env.AI_PROVIDER, call.env)
                         THEN ClassOf(call.env.AI_PROVIDER)
                    ELSE FirstWithKey(call.env)

(***************************************************************************)
(* C19: get_llm raises if and only if none of the three credentials is     *)
(* set, whatever the override and AI_PROVIDER are; otherwise it returns a  *)
(* provider whose own credential is set.                                   *)
(***************************************************************************)
C19_RaisesIffNoCredential ==
    (call.fn = "get_llm" /\ ret.done) =>
        /\ ret.raises <=> FirstWithKey(call.env) = "none"
        /\ ~ret.raises =>
              /\ ret.value \in {"DeepSeek", "Gemini", "OpenAI"}
              /\ Usable(ret.value, call.env)

\* an unknown override and an AI_PROVIDER without key, with the OpenAI key
\* alone set: OpenAI is returned
C19_Witness ==
    /\ call.fn = "get_llm" /\ ret.done
    /\ call.provider = "claude"
    /\ call.env.AI_PROVIDER = "Gemini"
    /\ call.env.GEMINI_API_KEY = ""
    /\ call.env.DEEPSEEK_API_KEY = None
    /\ call.env.OPENAI_API_KEY = "key"
    /\ ret.value = "OpenAI"

(***************************************************************************)
(* C20 as stated: _extract_json tries (1) the content of a fenced code     *)
(* block, (2) a direct parse of the text, (3) the substring of the text    *)
(* from the first '{' to the last '}', returns the result of the first     *)
(* strategy that parses, and raises only if all three fail on the text.    *)
(***************************************************************************)
FencedBlockStrategy(text) ==
    IF FenceMatch(text).found THEN JsonLoads(FenceMatch(text).group) ELSE [ok |-> FALSE]

DirectParseStrategy(text) == JsonLoads(text)

SubstringStrategy(text) ==
    IF Find(text, "{") # 0 /\ RFind(text, "}") >= Find(text, "{")
    THEN JsonLoads(SubSeq(text, Find(text, "{"), RFind(text, "}")))
    ELSE [ok |-> FALSE]

FirstThatParses(text) ==
    IF FencedBlockStrategy(text).ok THEN FencedBlockStrategy(text)
    ELSE IF DirectParseStrategy(text).ok THEN DirectParseStrategy(text)
    ELSE SubstringStrategy(text)

C20_FirstStrategyThatParses ==
    (call.fn = "_extract_json" /\ ret.done) =>
        IF FirstThatParses(call.text).ok
        THEN ~ret.raises /\ ret.value = FirstThatParses(call.text).value
        ELSE ret.raises

(***************************************************************************)
(* C15 as stated: a request to ask ends in a hard failure exactly when no  *)
(* generative-model credential is configured; with a usable credential no  *)
(* intent-parse, channel or store failure makes ask return an error.       *)
(***************************************************************************)
C15_HardFailureOnlyWithoutCredential ==
    (call.fn = "ask_brain" /\ ret.done) =>
        (ret.status = 500 <=> FirstWithKey(call.env) = "none")

(***************************************************************************)
(* C16: if the answer-generation call fails, run() does not raise: the     *)
(* result's answer is the error text and its retrieved_logs and intent are *)
(* those of the retrieval and intent stages.                               *)
(***************************************************************************)
C16_GenerationFailureInAnswer ==
    (call.fn = "ask_brain" /\ call.gen.fails /\ status.fallback \in {"ran", "no"}) =>
        /\ pc \notin {"raised", "http500"}
        /\ pc \in {"generated", "responded"} => answer = ErrorAnswer
        /\ ret.done =>
              /\ ret.status = 200
              /\ ret.answer = ErrorAnswer
              /\ ret.retrieved_logs = TopResults(beforeSort)
              /\ ret.intent = parse_intent(query, llmOut)

\* generation failed after the model had produced text; the response still
\* carries the retrieved logs and the parsed intent
C16_Witness ==
    /\ call.fn = "ask_brain" /\ call.gen.fails /\ call.gen.fragments # <<>>
    /\ pc = "responded"
    /\ ret.answer = ErrorAnswer
    /\ Len(ret.retrieved_logs) = 2
    /\ ret.intent.tags # <<>>

(***************************************************************************)
(* C17 as stated: every stream of the streaming ask is one metadata event  *)
(* {intent, log_count} first (after intent parsing and retrieval, with     *)
(* log_count the number of retrieved logs), then the content events in the *)
(* order the model yielded the fragments, then [DONE] last; a stream that  *)
(* has ended has ended with [DONE].                                        *)
(***************************************************************************)
C17_StreamShape ==
    (call.fn = "ask_brain_stream" /\ events # <<>>) =>
        /\ status.fallback \in {"ran", "no"}
        /\ events[1] = MetadataEvent(parse_intent(query, llmOut), TopResults(beforeSort))
        /\ \A i \in 2..Len(events) :
              /\ events[i].type \in {"content", "[DONE]"}
              /\ events[i].type = "[DONE]" => i = Len(events)
              /\ events[i].type = "content" =>
                    /\ i - 1 <= Len(call.gen.fragments)
                    /\ events[i].content = call.gen.fragments[i - 1]
        /\ pc # "streaming" =>
              /\ events[Len(events)] = DoneEvent
              /\ Len(events) = Len(call.gen.fragments) + 2

(***************************************************************************)
(* C21 as stated: cosine_similarity(a, b) returns 0.0 whenever either      *)
(* vector has zero norm, without raising, and cosine_similarity(v, v) is   *)
(* 1.0 for every nonzero v.                                                *)
(***************************************************************************)
ZeroNorm(v) == \A i \in DOMAIN v : v[i] = 0

estimate_tokens(text) == Len(text) \div 3

\* str.split(sep): the pieces between the occurrences of sep, found from the
\* left without overlap
RECURSIVE SplitScan(_, _, _, _, _)
SplitScan(text, sep, i, piece, out) ==
    IF i > Len(text) THEN Append(out, piece)
    ELSE IF i + Len(sep) - 1 <= Len(text) /\ SubSeq(text, i, i + Len(sep) - 1) = sep
         THEN SplitScan(text, sep, i + Len(sep), <<>>, Append(out, piece))
         ELSE SplitScan(text, sep, i + 1, Append(piece, text[i]), out)

Split(text, sep) == SplitScan(text, sep, 1, <<>>, <<>>)

\* str.replace(old, new)
RECURSIVE ReplaceScan(_, _, _, _, _)
ReplaceScan(text, old, new, i, out) ==
    IF i > Len(text) THEN out
    ELSE IF i + Len(old) - 1 <= Len(text) /\ SubSeq(text, i, i + Len(old) - 1) = old
         THEN ReplaceScan(text, old, new, i + Len(old), out \o new)
         ELSE ReplaceScan(text, old, new, i + 1, Append(out, text[i]))

Replace(text, old, new) == ReplaceScan(text, old, new, 1, <<>>)

\* para.replace('。', '。\n').replace('. ', '.\n').split('\n')
Sentences(para) ==
    Split(Replace(Replace(para, <<"STOP">>, <<"STOP", "NL">>),
                  <<".", "SP">>, <<".", "NL">>),
          <<"NL">>)

\* sent[i:i + max_chars] for i in range(0, len(sent), step), from offset i on
RECURSIVE HardSlices(_, _, _, _)
HardSlices(sent, i, max_chars, step) ==
    IF i >= Len(sent) THEN <<>>
    ELSE <<SubSeq(sent, i + 1, Min(i + max_chars, Len(sent)))>>
            \o HardSlices(sent, i + step, max_chars, step)

\* `if current_chunk: chunks.append(current_chunk)`
Flush(st) == IF st.current_chunk # <<>> THEN Append(st.chunks, st.current_chunk) ELSE st.chunks

\* the loop over the sentences of a long paragraph
RECURSIVE SentenceLoop(_, _, _, _)
SentenceLoop(st, sentences, max_chars, overlap_chars) ==
    IF sentences = <<>> THEN st
    ELSE LET sent == Head(sentences)
             nxt == IF Len(st.current_chunk) + Len(sent) + 1 <= max_chars
                    THEN [chunks |-> st.chunks,
                          current_chunk |-> st.current_chunk
                              \o (IF st.current_chunk # <<>> THEN <<"SP">> ELSE <<>>)
                              \o sent]
                    ELSE IF Len(sent) > max_chars
                         THEN [chunks |-> Flush(st)
                                   \o HardSlices(sent, 0, max_chars, max_chars - overlap_chars),
                               current_chunk |-> <<>>]
                         ELSE [chunks |-> Flush(st), current_chunk |-> sent]
         IN  SentenceLoop(nxt, Tail(sentences), max_chars, overlap_chars)

\* the loop over the paragraphs
RECURSIVE ParagraphLoop(_, _, _, _)
ParagraphLoop(st, paragraphs, max_chars, overlap_chars) ==
    IF paragraphs = <<>> THEN st
    ELSE LET para == Head(paragraphs)
             nxt == IF Len(st.current_chunk) + Len(para) + 2 <= max_chars
                    THEN [chunks |-> st.chunks,
                          current_chunk |-> st.current_chunk
                              \o (IF st.current_chunk # <<>> THEN <<"NL", "NL">> ELSE <<>>)
                              \o para]
                    ELSE IF Len(para) > max_chars
                         THEN SentenceLoop([chunks |-> Flush(st), current_chunk |-> <<>>],
                                           Sentences(para), max_chars, overlap_chars)
                         ELSE [chunks |-> Flush(st), current_chunk |-> para]
         IN  ParagraphLoop(nxt, Tail(paragraphs), max_chars, overlap_chars)

\* the tail of the previous chunk and a space put before every chunk but the
\* first
AddOverlap(chunks, overlap_chars) ==
    IF Len(chunks) > 1 /\ overlap_chars > 0
    THEN [i \in 1..Len(chunks) |->
            IF i = 1 THEN chunks[1]
            ELSE LET prev == chunks[i - 1]
                     prev_tail == IF Len(prev) > overlap_chars
                                  THEN SubSeq(prev, Len(prev) - overlap_chars + 1, Len(prev))
                                  ELSE prev
                 IN  prev_tail \o <<"SP">> \o chunks[i]]
    ELSE chunks

chunk_text(text, max_tokens, overlap) ==
    IF estimate_tokens(text) <= max_tokens THEN <<text>>
    ELSE LET max_chars == max_tokens * 3
             overlap_chars == overlap * 3
             st == ParagraphLoop([chunks |-> <<>>, current_chunk |-> <<>>],
                                 Split(text, <<"NL", "NL">>), max_chars, overlap_chars)
         IN  AddOverlap(Flush(st), overlap_chars)

\* model.encode(chunk): some vector that depends on the chunk only
Encode(chunk) == <<Len(chunk), Cardinality({i \in DOMAIN chunk : chunk[i] = "a"})>>

RECURSIVE SumAt(_, _)
SumAt(embeddings, k) ==
    IF embeddings = <<>> THEN 0 ELSE Head(embeddings)[k] + SumAt(Tail(embeddings), k)

\* what np.mean gives for no embeddings at all: not a vector
NaN == "nan"

\* the one embedding, else the mean over the embeddings (whole units)
mean_pooling(embeddings) ==
    IF Len(embeddings) = 1 THEN embeddings[1]
    ELSE IF embeddings = <<>> THEN NaN
    ELSE [k \in 1..2 |-> SumAt(embeddings, k) \div Len(embeddings)]

\* the texts compute_embedding is called on, with the limits they are chunked
\* under: overlap below max_tokens, as in the settings
MaxChunkText == 6
CharsOver(alphabet, n) == UNION {[1..k -> alphabet] : k \in 0..n}
EmbedCalls ==
    {[fn |-> "compute_embedding", text |-> t, max_tokens |-> 1, overlap |-> 0] :
        t \in CharsOver({"NL", "a", ".", "SP"}, MaxChunkText)}
    \cup {[fn |-> "compute_embedding", text |-> t, max_tokens |-> 2, overlap |-> 1] :
        t \in CharsOver({"NL", "a"}, MaxChunkText + 3)
              \cup CharsOver({"STOP", "a"}, MaxChunkText + 3)}

InitEmbed ==
    /\ PipeIdle
    /\ table = <<>>
    /\ NoAsk
    /\ NoExt
    /\ ret = [done |-> FALSE]
    /\ call \in EmbedCalls

\* compute_embedding, line 99
EmbedChunk ==
    /\ call.fn = "compute_embedding"
    /\ ret = [done |-> FALSE]
    /\ ret' = [done |-> FALSE,
               chunks |-> chunk_text(call.text, call.max_tokens, call.overlap)]
    /\ UNCHANGED <<table, call, pipeVars, askVars, extVars>>

\* compute_embedding, lines 100-102
EmbedPool ==
    /\ call.fn = "compute_embedding"
    /\ ~ret.done
    /\ "chunks" \in DOMAIN ret
    /\ ret' = [done |-> TRUE, chunks |-> ret.chunks,
               value |-> mean_pooling([i \in DOMAIN ret.chunks |-> Encode(ret.chunks[i])])]
    /\ UNCHANGED <<table, call, pipeVars, askVars, extVars>>

NextEmbed ==
    \/ EmbedChunk
    \/ EmbedPool

SpecEmbed == InitEmbed /\ [][NextEmbed]_vars

(***************************************************************************)
(* C22: for every input text, chunk_text returns at least one chunk, so    *)
(* that compute_embedding returns a vector for it.                         *)
(***************************************************************************)
C22_AtLeastOneChunk ==
    (call.fn = "compute_embedding" /\ "chunks" \in DOMAIN ret) =>
        /\ Len(ret.chunks) >= 1
        /\ ret.done => ret.value # NaN

(***************************************************************************)
(* Two invocations at once.  Specification SpecPair runs _parse_intent and *)
(* _retrieve_logs for two queries over one store; a step of one invocation *)
(* may come between any two steps of the other, which includes every       *)
(* interleaving at an await.  Each invocation has its own AgentState       *)
(* (brain_agent.py:262) and its own locals `results` and `seen_ids`.       *)
(***************************************************************************)
Invocations == {1, 2}

\* what the store and the embedding provider do for one invocation
NoFaults == [date |-> FALSE, tag |-> FALSE, sem |-> FALSE, fallback |-> FALSE]
PairFaults ==
    {NoFaults,
     [NoFaults EXCEPT !.sem = TRUE],
     [NoFaults EXCEPT !.tag = TRUE],
     [NoFaults EXCEPT !.date = TRUE, !.fallback = TRUE]}

PairTables ==
    {MkTable(<<Row(Noon0, <<"cors", "React">>, Sim10)>>),
     MkTable(<<Row(Noon0, <<>>, Sim03), Row(Noon1, <<"cors", "React">>, Sim05)>>),
     MkTable(<<Row(Noon0, <<>>, Sim05), Row(Noon0, <<"cors">>, Sim03),
               Row(Noon1, <<>>, Sim10)>>)}

PairOutcomes ==
    {[raises |-> TRUE, text |-> <<>>],
     [raises |-> FALSE, text |-> <<"{", "p4", "}">>],
     [raises |-> FALSE, text |-> <<"{", "p5", "}">>],
     [raises |-> FALSE, text |-> <<"{", "p8", "}">>],
     [raises |-> FALSE, text |-> <<"null">>]}

\* the invocation whose frame holds the locals invocation i works on, were
\* `results` and `seen_ids` attributes of one shared object
FrameShared(i) == 1

\* the invocation whose frame holds the locals invocation i works on
Frame(i) == i

InitPair ==
    /\ PipeIdle
    /\ table \in PairTables
    /\ call = [fn |-> "none"]
    /\ ret = [done |-> FALSE]
    /\ NoAsk
    /\ model = NoModel /\ loads = 0 /\ callers = <<>> /\ conns = {}
    /\ inv \in [Invocations ->
                  {[query |-> "q", llmOut |-> o, faults |-> f, pc |-> "parse_intent",
                    intent |-> JNull, results |-> <<>>, seen_ids |-> {},
                    retrieved |-> <<>>, raised |-> "none"] :
                      o \in PairOutcomes, f \in PairFaults}]

\* the locals invocation i reads
Locals(i) == [results |-> inv[Frame(i)].results, seen_ids |-> inv[Frame(i)].seen_ids]

\* inv after invocation i wrote acc to its locals and moved to `to`
WriteLocals(i, acc, to) ==
    LET moved == [inv EXCEPT ![i].pc = to]
    IN  [moved EXCEPT ![Frame(i)].results = acc.results,
                      ![Frame(i)].seen_ids = acc.seen_ids]

PairUnchanged == UNCHANGED <<table, call, ret, pipeVars, askVars, model, loads, callers, conns>>

\* node parse_intent of invocation i
PairParseIntent(i) ==
    /\ inv[i].pc = "parse_intent"
    /\ inv' = [inv EXCEPT ![i].intent = parse_intent(inv[i].query, inv[i].llmOut),
                          ![i].pc = "retrieve_logs"]
    /\ PairUnchanged

\* node retrieve_logs of invocation i: results = [], seen_ids = set(), channel 1
PairRetrieveDate(i) ==
    /\ inv[i].pc = "retrieve_logs"
    /\ IF inv[i].intent.kind # "object"
       THEN inv' = [inv EXCEPT ![i].pc = "raised", ![i].raised = "intent"]
       ELSE inv' = WriteLocals(i,
                       DateChannel([results |-> <<>>, seen_ids |-> {}], table,
                                   inv[i].intent,
                                   inv[i].faults.date /\ inv[i].intent.date_range # <<>>).acc,
                       "tag")
    /\ PairUnchanged

\* channel 2 of invocation i
PairRetrieveTag(i) ==
    /\ inv[i].pc = "tag"
    /\ IF inv[i].faults.tag /\ inv[i].intent.tags # <<>>
       THEN inv' = [inv EXCEPT ![i].pc = "raised", ![i].raised = "tag"]
       ELSE inv' = WriteLocals(i, TagChannel(Locals(i), table, inv[i].intent).acc,
                               "semantic")
    /\ PairUnchanged

\* channel 3 of invocation i
PairRetrieveSemantic(i) ==
    /\ inv[i].pc = "semantic"
    /\ inv' = WriteLocals(i,
                  SemanticChannel(Locals(i), table, inv[i].intent,
                                  inv[i].faults.sem /\ inv[i].intent.needs_rag).acc,
                  "finalize")
    /\ PairUnchanged

\* fallback, sort and truncation of invocation i
PairRetrieveFinalize(i) ==
    /\ inv[i].pc = "finalize"
    /\ LET mine == Locals(i).results
       IN  IF NeedsFallback(mine) /\ inv[i].faults.fallback
           THEN inv' = [inv EXCEPT ![i].pc = "raised", ![i].raised = "fallback"]
           ELSE LET res == IF NeedsFallback(mine) THEN FallbackResults(table) ELSE mine
                    done == [inv EXCEPT ![i].pc = "done", ![i].retrieved = TopResults(res)]
                IN  inv' = [done EXCEPT ![Frame(i)].results = SortByScoreDesc(res)]
    /\ PairUnchanged

NextPair ==
    \/ \E i \in Invocations : PairParseIntent(i)
    \/ \E i \in Invocations : PairRetrieveDate(i)
    \/ \E i \in Invocations : PairRetrieveTag(i)
    \/ \E i \in Invocations : PairRetrieveSemantic(i)
    \/ \E i \in Invocations : PairRetrieveFinalize(i)

SpecPair == InitPair /\ [][NextPair]_vars

(***************************************************************************)
(* C23: each of two concurrent invocations over the same unchanged store   *)
(* ends with the retrieved sequence and scores, or with the exception, it  *)
(* has when run alone.                                                     *)
(***************************************************************************)
\* _parse_intent and _retrieve_logs run without interruption
RunAlone(tbl, q, out, faults) ==
    LET it == parse_intent(q, out)
    IN  IF it.kind # "object" THEN [pc |-> "raised", raised |-> "intent", retrieved |-> <<>>]
        ELSE LET d == DateChannel([results |-> <<>>, seen_ids |-> {}], tbl, it,
                                  faults.date /\ it.date_range # <<>>).acc
             IN  IF faults.tag /\ it.tags # <<>>
                 THEN [pc |-> "raised", raised |-> "tag", retrieved |-> <<>>]
                 ELSE LET t == TagChannel(d, tbl, it).acc
                          m == SemanticChannel(t, tbl, it, faults.sem /\ it.needs_rag).acc
                      IN  IF NeedsFallback(m.results) /\ faults.fallback
                          THEN [pc |-> "raised", raised |-> "fallback", retrieved |-> <<>>]
                          ELSE [pc |-> "done", raised |-> "none",
                                retrieved |-> TopResults(IF NeedsFallback(m.results)
                                                         THEN FallbackResults(tbl)
                                                         ELSE m.results)]

C23_ConcurrentInvocationsIsolated ==
    \A i \in DOMAIN inv :
        inv[i].pc \in {"done", "raised"} =>
            LET alone == RunAlone(table, inv[i].query, inv[i].llmOut, inv[i].faults)
            IN  /\ inv[i].pc = alone.pc
                /\ inv[i].raised = alone.raised
                /\ inv[i].retrieved = alone.retrieved

\* one invocation has returned its logs while the other, which finds other
\* logs, is between its channels
C23_Witness ==
    /\ DOMAIN inv = Invocations
    /\ inv[1].pc = "done"
    /\ inv[1].retrieved # <<>>
    /\ inv[2].pc = "semantic"
    /\ inv[2].results # <<>>
    /\ Ids(inv[2].results) # Ids(inv[1].retrieved)

(***************************************************************************)
(* The embedding model (services/embedding.py:15-28).  Specification       *)
(* SpecModel runs the queries that use the model as coroutines of the one  *)
(* event loop: compute_embedding is a coroutine, get_model is a plain      *)
(* function without an await, so a caller that has entered get_model keeps *)
(* the loop until get_model returns or raises.  A model instance is named  *)
(* by the number of its construction.                                      *)
(***************************************************************************)
MaxCallers == 2
MaxCalls == 2
Callers == 1..MaxCallers

\* a coroutine gives up the loop at every position, were get_model to await
\* between its test and its assignment
SuspendedAnywhere(pc_) == TRUE

\* the positions at which a coroutine has given up the event loop: every one
\* but the inside of get_model
Suspended(pc_) == pc_ # "loading"

\* get_model constructs a model on every call
NeedsLoadAlways(m) == TRUE

\* `if _model is None`
NeedsLoad(m) == m = NoModel

\* the loop is free for caller c to run
LoopFree(c) == \A d \in Callers \ {c} : Suspended(callers[d].pc)

InitModel ==
    /\ PipeIdle
    /\ table = <<>>
    /\ call = [fn |-> "none"]
    /\ ret = [done |-> FALSE]
    /\ NoAsk
    /\ inv = <<>> /\ conns = {}
    /\ model = NoModel
    /\ loads = 0
    /\ callers = [c \in Callers |-> [pc |-> "idle", calls |-> 0, got |-> NoModel,
                                      first |-> FALSE]]

ModelUnchanged == UNCHANGED <<table, call, ret, pipeVars, askVars, inv, conns>>

\* a query reaches compute_embedding; `first`: no model is loaded yet
QueryArrives(c) ==
    /\ callers[c].pc = "idle"
    /\ callers[c].calls < MaxCalls
    /\ callers' = [callers EXCEPT ![c].pc = "scheduled", ![c].calls = @ + 1,
                                  ![c].got = NoModel, ![c].first = (model = NoModel)]
    /\ UNCHANGED <<model, loads>>
    /\ ModelUnchanged

\* get_model, line 22 and, with a model loaded, line 28
GetModelTest(c) ==
    /\ callers[c].pc = "scheduled"
    /\ LoopFree(c)
    /\ callers' = IF NeedsLoad(model)
                  THEN [callers EXCEPT ![c].pc = "loading"]
                  ELSE [callers EXCEPT ![c].pc = "returned", ![c].got = model]
    /\ UNCHANGED <<model, loads>>
    /\ ModelUnchanged

\* get_model, lines 25-28: the import or the constructor raises, or the new
\* instance is assigned to _model and returned
GetModelLoad(c) ==
    /\ callers[c].pc = "loading"
    /\ LoopFree(c)
    /\ \E load_raises \in BOOLEAN :
          IF load_raises
          THEN /\ callers' = [callers EXCEPT ![c].pc = "raised"]
               /\ UNCHANGED <<model, loads>>
          ELSE /\ loads' = loads + 1
               /\ model' = loads + 1
               /\ callers' = [callers EXCEPT ![c].pc = "returned", ![c].got = loads + 1]
    /\ ModelUnchanged

\* the query is answered
QueryEnds(c) ==
    /\ callers[c].pc \in {"returned", "raised"}
    /\ LoopFree(c)
    /\ callers' = [callers EXCEPT ![c].pc = "idle"]
    /\ UNCHANGED <<model, loads>>
    /\ ModelUnchanged

NextModel ==
    \/ \E c \in Callers : QueryArrives(c)
    \/ \E c \in Callers : GetModelTest(c)
    \/ \E c \in Callers : GetModelLoad(c)
    \/ \E c \in Callers : QueryEnds(c)

SpecModel == InitModel /\ [][NextModel]_vars

ModelKept ==
    model # NoModel =>
        /\ model' = model
        /\ loads' = loads
        /\ \A c \in DOMAIN callers :
              (callers[c].pc # "returned" /\ callers'[c].pc = "returned")
                  => callers'[c].got = model

C25_SingletonAfterFirstLoad == [][ModelKept]_vars

\* a caller's second call returned the instance of the one load
C25_Witness ==
    /\ DOMAIN callers = Callers
    /\ \E c \in Callers : /\ callers[c].calls = 2
                          /\ callers[c].pc = "returned"
                          /\ ~callers[c].first
                          /\ callers[c].got = model
    /\ loads = 1

(***************************************************************************)
(* Store connections (services/database.py:18-26).  Specification          *)
(* SpecStore makes up to MaxReads store reads one after the other; each    *)
(* runs `with get_db() as conn:` around its query and the decoding of its  *)
(* rows.  A connection is named by the number of the read that opened it.  *)
(***************************************************************************)
MaxReads == 3

StoreReads ==
    {[fn |-> "get_all_logs", limit |-> MaxResults],
     [fn |-> "get_logs_by_date_range", start_ts |-> 0, end_ts |-> DayMs - 1],
     [fn |-> "get_logs_by_tags", tag_names |-> <<"cors">>],
     [fn |-> "get_log_embeddings"]}

\* what the body of the `with` returns when nothing raises
StoreValue(tbl, read) ==
    CASE read.fn = "get_all_logs" -> get_all_logs(tbl, read.limit)
      [] read.fn = "get_logs_by_date_range" ->
            get_logs_by_date_range(tbl, read.start_ts, read.end_ts)
      [] read.fn = "get_logs_by_tags" -> get_logs_by_tags(tbl, read.tag_names)
      [] read.fn = "get_log_embeddings" -> get_log_embeddings(tbl)

\* what happens inside the `with`: conn.execute raises, json.loads of a row
\* raises (there must be a row), or the list is built
BodyOutcomes(tbl) ==
    {"ok", "execute_raises"} \cup (IF tbl = <<>> THEN {} ELSE {"decode_raises"})

\* get_db with conn.close() after the yield instead of in a finally
get_db_exit_no_finally(open, conn, exc) == IF exc THEN open ELSE open \ {conn}

\* get_db after the yield: `finally: conn.close()`, on return and on exception
get_db_exit(open, conn, exc) == open \ {conn}

InitStore ==
    /\ PipeIdle
    /\ table \in PairTables \cup {<<>>}
    /\ call = [fn |-> "none", n |-> 0]
    /\ ret = [done |-> TRUE, raises |-> FALSE, opened |-> 0]
    /\ NoAsk
    /\ inv = <<>> /\ model = NoModel /\ loads = 0 /\ callers = <<>>
    /\ conns = {}

StoreUnchanged == UNCHANGED <<table, pipeVars, askVars, inv, model, loads, callers>>

\* a store read is called
StoreCall ==
    /\ ret.done
    /\ call.n < MaxReads
    /\ \E read \in StoreReads : call' = [read |-> read, fn |-> read.fn, n |-> call.n + 1]
    /\ ret' = [done |-> FALSE, opened |-> 0, at |-> "connect"]
    /\ UNCHANGED conns
    /\ StoreUnchanged

\* get_db up to the yield: sqlite3.connect opens a connection or raises
GetDbEnter ==
    /\ ~ret.done
    /\ ret.at = "connect"
    /\ \E connect_raises \in BOOLEAN :
          IF connect_raises
          THEN /\ ret' = [done |-> TRUE, raises |-> TRUE, opened |-> 0, at |-> "connect"]
               /\ UNCHANGED conns
          ELSE /\ ret' = [done |-> FALSE, opened |-> ret.opened + 1, at |-> "body"]
               /\ conns' = conns \cup {call.n}
    /\ UNCHANGED call
    /\ StoreUnchanged

\* the body of the `with` and the rest of get_db
StoreBody ==
    /\ ~ret.done
    /\ ret.at = "body"
    /\ \E outcome \in BodyOutcomes(table) :
          /\ conns' = get_db_exit(conns, call.n, outcome # "ok")
          /\ ret' = IF outcome = "ok"
                    THEN [done |-> TRUE, raises |-> FALSE, opened |-> ret.opened,
                          at |-> "return", value |-> StoreValue(table, call.read)]
                    ELSE [done |-> TRUE, raises |-> TRUE, opened |-> ret.opened,
                          at |-> outcome]
    /\ UNCHANGED call
    /\ StoreUnchanged

NextStore ==
    \/ StoreCall
    \/ GetDbEnter
    \/ StoreBody

SpecStore == InitStore /\ [][NextStore]_vars

(***************************************************************************)
(* C26: every store read opens exactly one connection and has closed it    *)
(* when control is back at the caller, also when the query or the decoding *)
(* of a row raises; no connection is open between reads.                   *)
(***************************************************************************)
C26_OneConnectionClosedOnReturn ==
    /\ Cardinality(conns) <= 1
    /\ (call.fn \in {r.fn : r \in StoreReads} /\ ret.done) =>
          /\ conns = {}
          /\ ret.at # "connect" => ret.opened = 1
          /\ ret.at = "connect" => ret.opened = 0

\* the third read raised while decoding a row, and no connection is open
C26_Witness ==
    /\ call.fn = "get_log_embeddings"
    /\ call.n = 3
    /\ ret.done
    /\ ret.raises
    /\ ret.at = "decode_raises"
    /\ conns = {}

(***************************************************************************)
(* C27: similarities being at most 1, no log the date channel did not      *)
(* return is ranked ahead of a log it returned, so the truncation to 20    *)
(* never drops a date-matched log while it keeps one that is not           *)
(* date-matched, a log with both a tag and a semantic match included.      *)
(***************************************************************************)
\* the entry was not put in by the date channel
NotFromDate(e) == e.id \notin Ids(afterDate)

C27_DateMatchesRankedFirst ==
    Returned =>
        /\ \A i \in 1..(Len(results) - 1) :
              NotFromDate(results[i]) => NotFromDate(results[i + 1])
        /\ (Ids(afterDate) \ Ids(retrieved) # {}) =>
              Ids(retrieved) \subseteq Ids(afterDate)

\* a date match was cut off at 20, and a log of another day with a tag match
\* and similarity 1 has the score 1.0 of a date match
C27_Witness ==
    /\ Returned
    /\ Ids(afterDate) \ Ids(retrieved) # {}
    /\ \E i \in DOMAIN results :
          /\ NotFromDate(results[i])
          /\ results[i].id \in Ids(afterTag)
          /\ results[i].retrieval_score = DateScore
    /\ \E i \in DOMAIN retrieved : retrieved[i].retrieval_score = DateScore

(***************************************************************************)
(* C28: fallback entries never coexist with channel entries: the output of *)
(* _retrieve_logs is either only entries scored exactly 0.1, the fallback  *)
(* having run because no channel contributed an entry, or holds no         *)
(* fallback entry, and then every score is greater than 0.21.              *)
(***************************************************************************)
C28_FallbackOrChannelsNeverBoth ==
    Returned =>
        \/ /\ status.fallback = "ran"
           /\ afterSem = <<>>
           /\ \A i \in DOMAIN retrieved : retrieved[i].retrieval_score = FallbackScore
        \/ /\ status.fallback = "no"
           /\ Ids(retrieved) \subseteq Ids(afterSem)
           /\ \A i \in DOMAIN retrieved : retrieved[i].retrieval_score > SemWeight * SimThreshold

\* the lowest score a channel gives in the model: similarity 0.5 alone
C28_Witness ==
    /\ Returned
    /\ status.fallback = "no"
    /\ \E i \in DOMAIN retrieved :
          /\ retrieved[i].retrieval_score = 3500
          /\ retrieved[i].id \notin Ids(afterTag)

(***************************************************************************)
(* Stored vectors of another dimension.  Specification SpecCorrupt runs    *)
(* the pipeline over stores in which some log_embeddings rows hold a       *)
(* vector that is not of the dimension of the query embedding, as rows     *)
(* written by another embedding model are.                                 *)
(***************************************************************************)
MaxCorruptLogs == 2

\* a vector of three dimensions; the query embedding has four
OtherDim == <<1, 0, 0>>

CorruptKinds ==
    RowKinds \cup {Row(Noon0, <<>>, OtherDim), Row(Noon1, <<"cors", "React">>, OtherDim)}

CorruptTables ==
    {MkTable(f) : f \in UNION {[1..k -> CorruptKinds] : k \in 0..MaxCorruptLogs}}

InitCorrupt ==
    /\ table \in CorruptTables
    /\ query \in Queries
    /\ llmOut \in LlmOutcomes
    /\ pc = "parse_intent"
    /\ intent = JNull
    /\ results = <<>>
    /\ seen_ids = {}
    /\ retrieved = <<>>
    /\ raised = "none"
    /\ status = NoStatus
    /\ afterDate = <<>>
    /\ afterTag = <<>>
    /\ afterSem = <<>>
    /\ beforeSort = <<>>
    /\ NoCall

SpecCorrupt == InitCorrupt /\ [][Next]_vars

(***************************************************************************)
(* C29: the semantic channel is all-or-nothing: if it fails at any point,  *)
(* part-way through the scan of the stored embeddings included, the ids    *)
(* and scores are exactly those the date and tag channels left.            *)
(***************************************************************************)
C29_SemanticAllOrNothing ==
    status.sem = "failed" => (afterSem = afterTag /\ results = afterTag)

(***************************************************************************)
(* C30: batch_process_entries assigns a result only to the entry whose     *)
(* position is the result's index: every key of the returned map is the id *)
(* of an entry, the value under the id of entry i comes from a result with *)
(* index i, and results with an index outside 0..len(entries)-1, negative  *)
(* ones included, are ignored.                                             *)
(***************************************************************************)
C30_ResultAssignedByIndex ==
    (call.fn = "batch_process_entries" /\ ret.done) =>
        \A id \in DOMAIN ret.value :
            \E i \in DOMAIN call.entries :
                /\ call.entries[i].id = id
                /\ ret.value[id].index = i - 1

====
